---- MODULE Spec2Model ----
(***************************************************************************)
(* Verification model of the Arborist training core: split finding for    *)
(* numeric and factor predictors (SplitCoord / RunSet / CutAccum), the     *)
(* minimum-information hand-off of winning splits, and the row sampler.    *)
(*                                                                         *)
(* Floating-point sums are modelled over small integers and every score    *)
(* (a sum of quotients) as an exact fraction [n, d] with d > 0, compared   *)
(* by cross-multiplication.                                                *)
(***************************************************************************)
EXTENDS Integers, Naturals, Sequences, FiniteSets, TLC

VARIABLES
  cand, nux, pc,                                       \* split phase of one candidate
  minRatio, iSet, splitCand, argMax, succ, phase,      \* argmax and consumption of one node
  nRow, rvRow, sCountRow, bagCount, idxBinned, wrote, fault, spc,  \* row sampling
  restage,                                             \* restaging of one source range
  stage,                                               \* staging of one predictor
  runSet,                                              \* run set of one factor candidate
  wideSet,                                             \* wide run set being shrunk
  replay,                                              \* replay of one explicit block
  level,                                               \* one level of candidate splitting
  monoSt,                                              \* monotone mode of one regression candidate
  idxPath,                                             \* path block of the front level
  trainSt,                                             \* training of one chunk of trees
  heapSt,                                              \* heap ordering of the runs of one set
  scanSt,                                              \* cut scans of one layout of cells
  facRep,                                              \* replay of one winning factor split
  bufSt,                                               \* double buffer of the staged predictors
  rootSt,                                              \* sample records of the trees of a chunk
  preSt,                                               \* prestaging of the sample of one tree
  rankQ,                                               \* single-rank query on one cell of a staged buffer
  packSt                                               \* packing of one staged cell

splitVars == <<cand, nux, pc>>

consumeVars == <<minRatio, iSet, splitCand, argMax, succ, phase>>

sampleVars == <<nRow, rvRow, sCountRow, bagCount, idxBinned, wrote, fault, spc>>

extVars == <<restage, stage, runSet, wideSet, replay, level, monoSt, idxPath, trainSt, heapSt, scanSt, facRep, bufSt, rootSt, preSt, rankQ, packSt>>

vars == <<splitVars, consumeVars, sampleVars, extVars>>

----------------------------------------------------------------------------
(* Bounds of the model.                                                    *)

\* Largest number of explicit cells staged for a candidate.
MaxCells == 3

\* Response sums carried by one regression cell.
YSums == {0, 1}

\* Sample counts (row multiplicities) of one cell.
SCounts == {1, 2}

\* Number of implicit samples of a candidate that holds a dense rank.
ImplicitCount == 1

\* Depth at which nodes are no longer split (totLevels).
MaxLevels == 2

\* Largest information value reported by a candidate.
MaxInfo == 3

\* Largest number of candidates scheduled for one node.
MaxCands == 2

\* Extent (and sample count) of the root node.
MaxExtent == 3

\* Largest number of rows of the frame.
MaxRow == 4

\* Largest number of samples drawn for a tree.
MaxSamp == 3

\* Number of cells of a staging buffer.
BufLen == 4

\* Run counts of the wide run sets range over maxWidth -/+ WideExtra.
WideExtra == 2

\* Multipliers of the variate generators.
RvMul == 5

\* Number of response categories of the wide run sets.
WideCtg == 3

\* Cells of the buffer a replay walks.
ReplayLen == 3

\* Invocations of BlockReplay on one block.
MaxCalls == 2

\* Candidates prescheduled in one level.
LevelCands == 2

\* Denominator of the monotone probabilities and of the variates.
MonoDen == 4

\* Largest number of trees of a chunk.
MaxTrees == 5

\* Largest number of runs put on a heap.
MaxHeap == 5

\* Largest number of explicit cells of a scanned layout.
MaxScan == 4

\* Cells of the staged region of one predictor.
PredLen == 2

\* Block sizes passed to Train::initBlock.
TrainBlocks == {1, 2, 3}

----------------------------------------------------------------------------
(* Exact fractions.                                                        *)

Frac(n, d) == [n |-> n, d |-> d]

\* a > b, both denominators positive.
FGt(a, b) == a.n * b.d > b.n * a.d

FSub(a, b) == [n |-> a.n * b.d - b.n * a.d, d |-> a.d * b.d]

FPos(a) == a.n > 0

RECURSIVE SumOver(_, _)
SumOver(f, S) ==
  IF S = {} THEN 0
  ELSE LET x == CHOOSE y \in S : TRUE IN f[x] + SumOver(f, S \ {x})

----------------------------------------------------------------------------
(* Candidates: the obs-cell range of one (node, predictor) pair.           *)

Ctgs(nCtg) == 0 .. (nCtg - 1)

\* Number of rank changes among cells 1..j of a tie pattern.
RECURSIVE Steps(_, _)
Steps(tie, j) == IF j <= 1 THEN 0 ELSE Steps(tie, j - 1) + (IF tie[j] THEN 0 ELSE 1)

\* Rank of cell j: ranks ascend by cell, ties share a rank, and the dense
\* rank, when present, is skipped by the explicit cells.
CellRank(tie, j, hasDense, densePos) ==
  LET k == Steps(tie, j) IN IF hasDense /\ k >= densePos THEN k + 1 ELSE k

\* A score that weights each side's squared sum by its own count.
infoVarCrossed(sumL, sumR, sCountL, sCountR) ==
  Frac(sumL * sumL * sCountL + sumR * sumR * sCountR, sCountL * sCountR)

\* The weighted-variance / Gini score of a two-way partition.
infoVar(sumL, sumR, sCountL, sCountR) ==
  Frac(sumL * sumL * sCountR + sumR * sumR * sCountL, sCountL * sCountR)

Square(x) == x * x

\* Per-category response sums of the whole node.
NodeCtgSum(c, ctg) ==
  SumOver([i \in DOMAIN c.spn |-> IF c.spn[i].ctg = ctg THEN c.spn[i].ySum ELSE 0], DOMAIN c.spn)
  + SumOver([i \in DOMAIN c.dns |-> IF c.dns[i].ctg = ctg THEN c.dns[i].ySum ELSE 0], DOMAIN c.dns)

\* IndexSet fields seen by the candidate: sCount, sum and preBias.
SplitFields(c) ==
  LET sCount == SumOver([i \in DOMAIN c.spn |-> c.spn[i].sCount], DOMAIN c.spn)
                + SumOver([i \in DOMAIN c.dns |-> c.dns[i].sCount], DOMAIN c.dns)
      sum == SumOver([i \in DOMAIN c.spn |-> c.spn[i].ySum], DOMAIN c.spn)
             + SumOver([i \in DOMAIN c.dns |-> c.dns[i].ySum], DOMAIN c.dns)
      sumSquares == SumOver([g \in Ctgs(c.nCtg) |-> Square(NodeCtgSum(c, g))], Ctgs(c.nCtg))
  IN [sCount |-> sCount, sum |-> sum, sumSquares |-> sumSquares,
      preBias |-> IF c.resp = "reg" THEN Frac(sum * sum, sCount) ELSE Frac(sumSquares, sum)]

\* Late initialisation: index bounds, implicit count and node fields.
InitLate(c) ==
  LET f == SplitFields(c)
  IN [resp |-> c.resp, fac |-> c.fac, nCtg |-> c.nCtg, monoMode |-> c.monoMode,
      spn |-> c.spn, dns |-> c.dns, rankDense |-> c.rankDense,
      idxStart |-> c.idxStart, idxEnd |-> c.idxStart + Cardinality(DOMAIN c.spn) - 1,
      implicit |-> Cardinality(DOMAIN c.dns),
      sCount |-> f.sCount, sum |-> f.sum, sumSquares |-> f.sumSquares, preBias |-> f.preBias]

----------------------------------------------------------------------------
(* Regression, numeric predictor (SplitCoord, splitpred.cc).               *)

\* NuxLH::InitNum: the split nucleus of a numeric cut.
InitNum(op, idxStart, lhExtent, sCount, info, rankLH, rankRH, lhImplicit) ==
  [split |-> TRUE, op |-> op, idxStart |-> idxStart, lhExtent |-> lhExtent,
   lhSCount |-> sCount, info |-> info, rankLH |-> rankLH, rankRH |-> rankRH,
   lhImplicit |-> lhImplicit]

\* bool up = (sumL * sCountR <= sumR * sCountL); increasing ? up : !up
MonoOk(increasing, sumL, sCountL, sumR, sCountR) ==
  LET up == sumL * sCountR <= sumR * sCountL IN IF increasing THEN up ELSE ~up

\* Backward walk of SplitNum / SplitNumMono; mono = 0 is the unconstrained walk.
RECURSIVE SplitNumLoop(_, _, _, _)
SplitNumLoop(c, i, s, mono) ==
  IF i < c.idxStart THEN s
  ELSE LET sCountR == c.sCount - s.sCountL
           sumL == c.sum - s.sumR
           idxGini == infoVar(sumL, s.sumR, s.sCountL, sCountR)
           this == c.spn[i]
           hit == /\ FGt(idxGini, s.maxInfo)
                  /\ this.rank # s.rkRight
                  /\ (mono # 0 => MonoOk(mono > 0, sumL, s.sCountL, s.sumR, sCountR))
           s1 == IF hit
                 THEN [s EXCEPT !.lhSampCt = s.sCountL, !.lhSup = i, !.maxInfo = idxGini]
                 ELSE s
       IN SplitNumLoop(c, i - 1,
                       [s1 EXCEPT !.sCountL = @ - this.sCount, !.sumR = @ + this.ySum,
                                  !.rkRight = this.rank],
                       mono)

SplitNumWalk(c, op, mono) ==
  LET top == c.spn[c.idxEnd]
      s0 == [sumR |-> top.ySum, sCountL |-> c.sCount - top.sCount, lhSampCt |-> 0,
             lhSup |-> c.idxEnd, maxInfo |-> c.preBias, rkRight |-> top.rank]
      s == SplitNumLoop(c, c.idxEnd - 1, s0, mono)
  IN IF FGt(s.maxInfo, c.preBias)
     THEN InitNum(op, c.idxStart, s.lhSup + 1 - c.idxStart, s.lhSampCt,
                  FSub(s.maxInfo, c.preBias), c.spn[s.lhSup].rank, c.spn[s.lhSup + 1].rank, 0)
     ELSE [split |-> FALSE, op |-> op]

SplitNum(c) == SplitNumWalk(c, "SplitNum", 0)

SplitNumMono(increasing, c) == SplitNumWalk(c, "SplitNumMono", IF increasing THEN 1 ELSE -1)

\* SPReg::Residuals: residual sum and count of the dense rank, and its place.
RECURSIVE DenseCutReg(_, _, _)
DenseCutReg(c, idx, denseCut) ==
  IF idx < c.idxStart THEN denseCut
  ELSE DenseCutReg(c, idx - 1, IF c.spn[idx].rank > c.rankDense THEN idx ELSE denseCut)

ResidualsReg(c) ==
  LET denseCut == DenseCutReg(c, c.idxEnd, c.idxEnd)
      sumTot == SumOver([i \in DOMAIN c.spn |-> c.spn[i].ySum], DOMAIN c.spn)
      sCountTot == SumOver([i \in DOMAIN c.spn |-> c.spn[i].sCount], DOMAIN c.spn)
  IN [denseCut |-> denseCut,
      sumDense |-> c.sum - sumTot,
      sCountDense |-> c.sCount - sCountTot,
      denseRight |-> (denseCut = c.idxEnd /\ c.spn[denseCut].rank < c.rankDense),
      denseLeft |-> (denseCut = c.idxStart /\ c.spn[denseCut].rank > c.rankDense)]

\* A cut position: the number of explicit cells left of it and the side of
\* the implicit block.
Cut(c, rhInf, denseOnLeft) == <<rhInf - c.idxStart, denseOnLeft>>

\* Backward walk of SplitNumDense / SplitNumDenseMono over explicit cells.
\* s.dL tells whether the implicit block is still counted on the left;
\* s.tried lists the cut positions whose rank test succeeded.
RECURSIVE SplitNumDenseLoop(_, _, _, _, _)
SplitNumDenseLoop(c, i, idxFinal, s, mono) ==
  IF i < idxFinal THEN s
  ELSE LET sCountR == c.sCount - s.sCountL
           sumL == c.sum - s.sumR
           idxGini == infoVar(sumL, s.sumR, s.sCountL, sCountR)
           this == c.spn[i]
           ranked == this.rank # s.rkRight
           hit == /\ FGt(idxGini, s.maxInfo)
                  /\ ranked
                  /\ (mono # 0 => MonoOk(mono > 0, sumL, s.sCountL, s.sumR, sCountR))
           s1 == IF hit
                 THEN [s EXCEPT !.lhSampCt = s.sCountL, !.rankLH = this.rank,
                                !.rankRH = s.rkRight, !.rhInf = i + 1,
                                !.maxInfo = idxGini, !.winDL = s.dL]
                 ELSE s
           s2 == IF ranked
                 THEN [s1 EXCEPT !.tried = Append(@, Cut(c, i + 1, s.dL))]
                 ELSE s1
       IN SplitNumDenseLoop(c, i - 1, idxFinal,
                            [s2 EXCEPT !.sCountL = @ - this.sCount, !.sumR = @ + this.ySum,
                                       !.rkRight = this.rank],
                            mono)

\* Evaluation of the dense component and of the cells below it.
DenseComponentReg(c, r, idxFinal, s, mono) ==
  IF r.denseCut = c.idxEnd THEN s
  ELSE LET sCountR == c.sCount - s.sCountL
           sumL == c.sum - s.sumR
           idxGini == infoVar(sumL, s.sumR, s.sCountL, sCountR)
           s1 == IF FGt(idxGini, s.maxInfo)
                 THEN [s EXCEPT !.lhSampCt = s.sCountL, !.rhInf = idxFinal,
                                !.rankLH = c.rankDense, !.rankRH = s.rkRight,
                                !.maxInfo = idxGini, !.winDL = s.dL]
                 ELSE s
           s2 == [s1 EXCEPT !.tried = Append(@, Cut(c, idxFinal, s.dL))]
       IN IF r.denseLeft THEN s2
          ELSE SplitNumDenseLoop(c, idxFinal - 1, c.idxStart,
                                 [s2 EXCEPT !.sCountL = @ - r.sCountDense,
                                            !.sumR = @ + r.sumDense,
                                            !.rkRight = c.rankDense, !.dL = FALSE],
                                 mono)

SplitNumDenseWalk(c, op, mono) ==
  LET r == ResidualsReg(c)
      top == c.spn[c.idxEnd]
      ySum == IF r.denseRight THEN r.sumDense ELSE top.ySum
      rkRight == IF r.denseRight THEN c.rankDense ELSE top.rank
      sampleCount == IF r.denseRight THEN r.sCountDense ELSE top.sCount
      idxNext == IF r.denseRight THEN c.idxEnd ELSE c.idxEnd - 1
      idxFinal == IF r.denseRight THEN c.idxStart
                  ELSE IF r.denseLeft THEN c.idxStart ELSE r.denseCut
      s0 == [sumR |-> ySum, sCountL |-> c.sCount - sampleCount, lhSampCt |-> 0,
             maxInfo |-> c.preBias, rankLH |-> 0, rankRH |-> 0, rhInf |-> c.idxEnd + 1,
             rkRight |-> rkRight, dL |-> ~r.denseRight, winDL |-> FALSE, tried |-> <<>>]
      sA == SplitNumDenseLoop(c, idxNext, idxFinal, s0, mono)
      s == DenseComponentReg(c, r, idxFinal, sA, mono)
  IN IF FGt(s.maxInfo, c.preBias)
     THEN LET lhDense == IF s.rankLH >= c.rankDense THEN c.implicit ELSE 0
              lhIdxTot == s.rhInf - c.idxStart + lhDense
          IN InitNum(op, c.idxStart, lhIdxTot, s.lhSampCt, FSub(s.maxInfo, c.preBias),
                     s.rankLH, s.rankRH, lhDense)
             @@ [winDL |-> s.winDL, tried |-> s.tried]
     ELSE [split |-> FALSE, op |-> op, tried |-> s.tried]

SplitNumDense(c) == SplitNumDenseWalk(c, "SplitNumDense", 0)

SplitNumDenseMono(increasing, c) ==
  SplitNumDenseWalk(c, "SplitNumDenseMono", IF increasing THEN 1 ELSE -1)

----------------------------------------------------------------------------
(* Regression, numeric predictor (CutAccumRegCart, cutaccumcart.cc).       *)

\* Tied flag of an obs cell: it shares its rank with the cell to its left.
Tied(c, idx) == idx > c.idxStart /\ c.spn[idx].rank = c.spn[idx - 1].rank

\* Accum::Accum: the accumulator starts with the whole node on the left and
\* cutResidual at the first explicit cell above the residual.
Accum(c) ==
  [sum |-> c.sum, sCount |-> c.sCount, info |-> c.preBias,
   cutResidual |-> c.idxStart
                   + Cardinality({i \in DOMAIN c.spn : c.spn[i].rank < c.rankDense}),
   obsLeft |-> c.idxStart - 1, lhSCount |-> 0, resLeft |-> FALSE, dL |-> c.implicit > 0,
   tried |-> <<>>]

\* CutAccum::argmaxRL: retains the trial cut when its information is greater.
argmaxRL(c, a, infoTrial, idx) ==
  LET a1 == IF FGt(infoTrial, a.info)
            THEN [a EXCEPT !.info = infoTrial, !.obsLeft = idx, !.lhSCount = a.sCount,
                           !.resLeft = a.dL]
            ELSE a
  IN [a1 EXCEPT !.tried = Append(@, Cut(c, idx + 1, a.dL))]

\* CutAccumRegCart::splitRL and splitMono: obsThis is the cell at idx + 1.
RECURSIVE splitRL(_, _, _, _)
splitRL(c, a, idx, idxFinal) ==
  IF idx < idxFinal THEN a
  ELSE LET obsThis == c.spn[idx + 1]
           a1 == [a EXCEPT !.sum = @ - obsThis.ySum, !.sCount = @ - obsThis.sCount]
           sCountR == c.sCount - a1.sCount
           sumR == c.sum - a1.sum
           a2 == IF Tied(c, idx + 1) THEN a1
                 ELSE IF c.monoMode # 0 /\ ~MonoOk(c.monoMode > 0, a1.sum, a1.sCount, sumR, sCountR)
                      THEN [a1 EXCEPT !.tried = Append(@, Cut(c, idx + 1, a1.dL))]
                      ELSE argmaxRL(c, a1, infoVar(a1.sum, sumR, a1.sCount, sCountR), idx)
       IN splitRL(c, a2, idx - 1, idxFinal)

\* CutAccumRegCart::splitResidual: the cut between the residual and the
\* cell at cutResidual.
splitResidual(c, a) ==
  LET obsThis == c.spn[a.cutResidual]
      a1 == [a EXCEPT !.sum = @ - obsThis.ySum, !.sCount = @ - obsThis.sCount]
      sCountR == c.sCount - a1.sCount
      sumR == c.sum - a1.sum
      up == a1.sum * sCountR <= sumR * a1.sCount
  IN IF c.monoMode = 0 \/ (c.monoMode > 0 /\ up) \/ (c.monoMode < 0 /\ ~up)
     THEN argmaxRL(c, a1, infoVar(a1.sum, sumR, a1.sCount, sCountR), a.cutResidual - 1)
     ELSE [a1 EXCEPT !.tried = Append(@, Cut(c, a.cutResidual, a1.dL))]

\* CutAccumRegCart::residualLR and splitMonoDense: obsThis is first the
\* residual, then the cell at idx + 1.
RECURSIVE residualLR(_, _, _, _)
residualLR(c, a, idx, first) ==
  IF idx < c.idxStart THEN a
  ELSE LET ySum == IF first THEN c.sum - SumOver([i \in DOMAIN c.spn |-> c.spn[i].ySum], DOMAIN c.spn)
                   ELSE c.spn[idx + 1].ySum
           sCnt == IF first
                   THEN c.sCount - SumOver([i \in DOMAIN c.spn |-> c.spn[i].sCount], DOMAIN c.spn)
                   ELSE c.spn[idx + 1].sCount
           tied == IF first THEN FALSE ELSE Tied(c, idx + 1)
           a1 == [a EXCEPT !.sum = @ - ySum, !.sCount = @ - sCnt,
                           !.dL = IF first THEN FALSE ELSE @]
           sCountR == c.sCount - a1.sCount
           sumR == c.sum - a1.sum
           a2 == IF tied THEN a1
                 ELSE IF c.monoMode # 0 /\ ~MonoOk(c.monoMode > 0, a1.sum, a1.sCount, sumR, sCountR)
                      THEN [a1 EXCEPT !.tried = Append(@, Cut(c, idx + 1, a1.dL))]
                      ELSE argmaxRL(c, a1, infoVar(a1.sum, sumR, a1.sCount, sCountR), idx)
       IN residualLR(c, a2, idx - 1, FALSE)

\* CutAccumRegCart::splitImpl
splitImpl(c, a) ==
  LET obsTop == c.idxEnd
      a1 == IF a.cutResidual <= obsTop
            THEN splitResidual(c, splitRL(c, a, obsTop - 1, a.cutResidual))
            ELSE a
  IN IF a.cutResidual > c.idxStart THEN residualLR(c, a1, a.cutResidual - 1, TRUE) ELSE a1

\* CutAccumRegCart::splitReg, with the cut written back to the candidate.
splitReg(c) ==
  LET a == IF c.implicit # 0 THEN splitImpl(c, Accum(c))
           ELSE splitRL(c, Accum(c), c.idxEnd - 1, c.idxStart)
      lhImplicit == IF a.resLeft THEN c.implicit ELSE 0
  IN IF FGt(a.info, c.preBias)
     THEN [split |-> TRUE, op |-> "splitReg", idxStart |-> c.idxStart,
           lhExtent |-> a.obsLeft + 1 - c.idxStart + lhImplicit, lhSCount |-> a.lhSCount,
           info |-> FSub(a.info, c.preBias), lhImplicit |-> lhImplicit,
           winDL |-> a.resLeft, tried |-> a.tried]
     ELSE [split |-> FALSE, op |-> "splitReg", tried |-> a.tried]

----------------------------------------------------------------------------
(* Classification, numeric predictor (SplitCoord / SPCtg, splitpred.cc).   *)

\* SPCtg::CtgSum: response sum of the node at a category.
CtgSum(c, ctg) == NodeCtgSum(c, ctg)

\* SPCtg::StableDenoms: both denominators exceed the stability floor.
StableDenoms(sumL, sumR) == sumL > 0 /\ sumR > 0

\* ssL / sumL + ssR / sumR
infoGini(ssL, ssR, sumL, sumR) == Frac(ssL * sumR + ssR * sumL, sumL * sumR)

\* SplitCoord::NumCtgGini: walks cells idxNext down to idxFinal.  s.acc is
\* the candidate's row of the ctgSumAccum checkerboard, read before it is
\* incremented.  The returned lhSampCt starts from zero at every call.
RECURSIVE NumCtgGiniLoop(_, _, _, _)
NumCtgGiniLoop(c, idx, idxFinal, s) ==
  IF idx < idxFinal THEN s
  ELSE LET this == c.spn[idx]
           sumR == c.sum - s.sumL
           ranked == this.rank # s.rkRight /\ StableDenoms(s.sumL, sumR)
           cutGini == infoGini(s.ssL, s.ssR, s.sumL, sumR)
           hit == ranked /\ FGt(cutGini, s.maxGini)
           s1 == IF hit
                 THEN [s EXCEPT !.lhSampCt = s.sCountL, !.rankLH = this.rank,
                                !.rankRH = s.rkRight, !.rhInf = idx + 1,
                                !.maxGini = cutGini, !.winDL = s.dL]
                 ELSE s
           s2 == IF ranked THEN [s1 EXCEPT !.tried = Append(@, Cut(c, idx + 1, s.dL))] ELSE s1
           sumRCtg == s.acc[this.ctg]
           sumLCtg == CtgSum(c, this.ctg) - sumRCtg
       IN NumCtgGiniLoop(c, idx - 1, idxFinal,
            [s2 EXCEPT !.rkRight = this.rank,
                       !.sCountL = @ - this.sCount,
                       !.sumL = @ - this.ySum,
                       !.acc = [@ EXCEPT ![this.ctg] = @ + this.ySum],
                       !.ssR = @ + this.ySum * (this.ySum + 2 * sumRCtg),
                       !.ssL = @ + this.ySum * (this.ySum - 2 * sumLCtg)])

NumCtgGini(c, idxNext, idxFinal, s) ==
  NumCtgGiniLoop(c, idxNext, idxFinal, [s EXCEPT !.lhSampCt = 0])

NumCtg(c) ==
  LET s0 == [sCountL |-> c.sCount, rkRight |-> c.spn[c.idxEnd].rank, sumL |-> c.sum,
             ssL |-> c.sumSquares, ssR |-> 0, maxGini |-> c.preBias, rankRH |-> 0,
             rankLH |-> 0, rhInf |-> c.idxEnd, lhSampCt |-> 0,
             acc |-> [g \in Ctgs(c.nCtg) |-> 0], dL |-> FALSE, winDL |-> FALSE,
             tried |-> <<>>]
      s == NumCtgGini(c, c.idxEnd, c.idxStart, s0)
  IN IF FGt(s.maxGini, c.preBias)
     THEN InitNum("NumCtg", c.idxStart, s.rhInf - c.idxStart, s.lhSampCt,
                  FSub(s.maxGini, c.preBias), s.rankLH, s.rankRH, 0)
     ELSE [split |-> FALSE, op |-> "NumCtg"]

\* SPCtg::Residuals.
RECURSIVE DenseCutCtg(_, _, _)
DenseCutCtg(c, idx, denseCut) ==
  IF idx < c.idxStart THEN denseCut
  ELSE DenseCutCtg(c, idx - 1, IF c.spn[idx].rank >= c.rankDense THEN idx ELSE denseCut)

ResidualsCtg(c) ==
  LET denseCut == DenseCutCtg(c, c.idxEnd, c.idxEnd)
      sumTot == SumOver([i \in DOMAIN c.spn |-> c.spn[i].ySum], DOMAIN c.spn)
      sCountTot == SumOver([i \in DOMAIN c.spn |-> c.spn[i].sCount], DOMAIN c.spn)
      ctgAccum == [g \in Ctgs(c.nCtg) |->
                     SumOver([i \in DOMAIN c.spn |->
                                IF c.spn[i].ctg = g THEN c.spn[i].ySum ELSE 0], DOMAIN c.spn)]
  IN [denseCut |-> denseCut,
      sumDense |-> c.sum - sumTot,
      sCountDense |-> c.sCount - sCountTot,
      ctgSumDense |-> [g \in Ctgs(c.nCtg) |-> CtgSum(c, g) - ctgAccum[g]],
      denseRight |-> (denseCut = c.idxEnd /\ c.spn[denseCut].rank < c.rankDense),
      denseLeft |-> (denseCut = c.idxStart /\ c.spn[denseCut].rank > c.rankDense)]

\* SPCtg::ApplyResiduals(splitIdx, predIdx, ssL, ssR, sumDenseCtg): the first
\* reference argument is decremented as a left sum of squares, the second
\* incremented as a right one.
ApplyResiduals(c, ssL, ssR, sumDenseCtg, acc) ==
  [ssL |-> ssL + SumOver([g \in Ctgs(c.nCtg) |->
                   sumDenseCtg[g] * (sumDenseCtg[g] - 2 * (CtgSum(c, g) - acc[g]))], Ctgs(c.nCtg)),
   ssR |-> ssR + SumOver([g \in Ctgs(c.nCtg) |->
                   sumDenseCtg[g] * (sumDenseCtg[g] + 2 * acc[g])], Ctgs(c.nCtg)),
   acc |-> [g \in Ctgs(c.nCtg) |-> acc[g] + sumDenseCtg[g]]]

\* Dense component of NumCtgDense and the walk below it.
DenseComponentCtg(c, r, idxFinal, s) ==
  IF r.denseCut = c.idxEnd THEN s
  ELSE LET sumR == c.sum - s.sumL
           stable == StableDenoms(s.sumL, sumR)
           cutGini == infoGini(s.ssL, s.ssR, s.sumL, sumR)
           s1 == IF stable /\ FGt(cutGini, s.maxGini)
                 THEN [s EXCEPT !.lhSampCt = s.sCountL, !.rhInf = idxFinal,
                                !.rankLH = c.rankDense, !.rankRH = s.rkRight,
                                !.maxGini = cutGini, !.winDL = s.dL]
                 ELSE s
           s2 == IF stable THEN [s1 EXCEPT !.tried = Append(@, Cut(c, idxFinal, s.dL))] ELSE s1
       IN IF r.denseLeft THEN s2
          ELSE LET ap == ApplyResiduals(c, s2.ssR, s2.ssL, r.ctgSumDense, s2.acc)
               IN NumCtgGini(c, r.denseCut, c.idxStart,
                     [s2 EXCEPT !.ssR = ap.ssL, !.ssL = ap.ssR, !.acc = ap.acc,
                                !.sCountL = @ - r.sCountDense,
                                !.sumL = @ - r.sumDense, !.dL = FALSE])

NumCtgDense(c) ==
  LET r == ResidualsCtg(c)
      acc0 == [g \in Ctgs(c.nCtg) |-> 0]
      ap == ApplyResiduals(c, c.sumSquares, 0, r.ctgSumDense, acc0)
      idxFinal == IF r.denseRight THEN c.idxStart
                  ELSE IF r.denseLeft THEN c.idxStart ELSE r.denseCut + 1
      s0 == [sCountL |-> IF r.denseRight THEN c.sCount - r.sCountDense ELSE c.sCount,
             rkRight |-> IF r.denseRight THEN c.rankDense ELSE c.spn[c.idxEnd].rank,
             sumL |-> IF r.denseRight THEN c.sum - r.sumDense ELSE c.sum,
             ssL |-> IF r.denseRight THEN ap.ssL ELSE c.sumSquares,
             ssR |-> IF r.denseRight THEN ap.ssR ELSE 0,
             acc |-> IF r.denseRight THEN ap.acc ELSE acc0,
             maxGini |-> c.preBias, rankRH |-> 0, rankLH |-> 0, rhInf |-> c.idxEnd,
             lhSampCt |-> 0, dL |-> ~r.denseRight, winDL |-> FALSE, tried |-> <<>>]
      sA == NumCtgGini(c, c.idxEnd, idxFinal, s0)
      s == DenseComponentCtg(c, r, idxFinal, sA)
  IN IF FGt(s.maxGini, c.preBias)
     THEN LET lhDense == IF s.rankLH >= c.rankDense THEN c.implicit ELSE 0
              lhIdxTot == s.rhInf - c.idxStart + lhDense
          IN InitNum("NumCtgDense", c.idxStart, lhIdxTot, s.lhSampCt,
                     FSub(s.maxGini, c.preBias), s.rankLH, s.rankRH, lhDense)
             @@ [winDL |-> s.winDL, tried |-> s.tried]
     ELSE [split |-> FALSE, op |-> "NumCtgDense", tried |-> s.tried]

----------------------------------------------------------------------------
(* Factor predictors: run sets (RunSet, BHeap, runset.cc / runset.h).      *)

\* RunSet::maxWidth
maxWidth == 10

\* Inattainable start value marking the implicit run (RunSet::noStart).
noStart == -1

\* FRNode::init
FRNode(rank, sCount, sum, start, extent, ctgSum) ==
  [rank |-> rank, sCount |-> sCount, sum |-> sum, start |-> start, extent |-> extent,
   ctgSum |-> ctgSum]

\* Slots are numbered from zero, as in the source.
Slot(seq, k) == seq[k + 1]

\* Per-category sums of the explicit cells lo..hi: the run's checkerboard row.
CellCtgSum(c, lo, hi) ==
  [g \in Ctgs(c.nCtg) |->
     SumOver([i \in lo .. hi |-> IF c.spn[i].ctg = g THEN c.spn[i].ySum ELSE 0], lo .. hi)]

\* SplitCoord::RunsReg / RunsCtg: walks the cells backward, flushing a run at
\* every rank change.  st = [runs, sum, sCount, rkThis, frEnd].
RECURSIVE RunsLoop(_, _, _)
RunsLoop(c, i, st) ==
  IF i < c.idxStart THEN st
  ELSE LET rkRight == st.rkThis
           this == c.spn[i]
       IN IF this.rank = rkRight
          THEN RunsLoop(c, i - 1, [st EXCEPT !.sum = @ + this.ySum,
                                             !.sCount = @ + this.sCount,
                                             !.rkThis = this.rank])
          ELSE RunsLoop(c, i - 1,
                 [st EXCEPT !.runs = Append(@, FRNode(rkRight, st.sCount, st.sum, i + 1,
                                                      st.frEnd - i,
                                                      CellCtgSum(c, i + 1, st.frEnd))),
                            !.sum = this.ySum, !.sCount = this.sCount,
                            !.frEnd = i, !.rkThis = this.rank])

\* A residual run that takes the node totals unreduced.
writeImplicitWhole(c, runs) ==
  Append(runs, FRNode(c.rankDense, c.sCount, c.sum, noStart, c.implicit,
                      [g \in Ctgs(c.nCtg) |-> CtgSum(c, g)]))

\* RunSet::writeImplicit: the residual run of the dense rank.
writeImplicit(c, runs) ==
  LET S == DOMAIN runs
      sCountTot == c.sCount - SumOver([k \in S |-> runs[k].sCount], S)
      sumTot == c.sum - SumOver([k \in S |-> runs[k].sum], S)
      resid == [g \in Ctgs(c.nCtg) |-> CtgSum(c, g) - SumOver([k \in S |-> runs[k].ctgSum[g]], S)]
  IN Append(runs, FRNode(c.rankDense, sCountTot, sumTot, noStart, c.implicit, resid))

\* The run set of a candidate after RunsReg / RunsCtg.
Runs(c) ==
  LET st0 == [runs |-> <<>>, sum |-> 0, sCount |-> 0, rkThis |-> c.spn[c.idxEnd].rank,
              frEnd |-> c.idxEnd]
      st == RunsLoop(c, c.idxEnd, st0)
      expl == Append(st.runs, FRNode(st.rkThis, st.sCount, st.sum, c.idxStart,
                                     st.frEnd - c.idxStart + 1,
                                     CellCtgSum(c, c.idxStart, st.frEnd)))
      runZero == IF c.implicit > 0 THEN writeImplicit(c, expl) ELSE expl
  IN [runZero |-> runZero, runCount |-> Len(runZero), hasImplicit |-> c.implicit > 0]

RunsReg(c) == Runs(c)

RunsCtg(c) == Runs(c)

\* BHeap::parent on a signed index: (idx - 1) >> 1.
parent(idx) == IF idx = 0 THEN -1 ELSE (idx - 1) \div 2

\* Strict order of heap keys (fractions with positive denominators).
KeyGt(a, b) == FGt(a, b)

\* BHeap::insert: places the pair at index slot and sifts it up.
RECURSIVE SiftUp(_, _, _)
SiftUp(pairVec, idx, input) ==
  LET parIdx == parent(idx)
  IN IF parIdx >= 0 /\ KeyGt(pairVec[parIdx].key, input.key)
     THEN SiftUp([pairVec EXCEPT ![idx] = pairVec[parIdx], ![parIdx] = input], parIdx, input)
     ELSE pairVec

insert(pairVec, slot, key) ==
  LET input == [key |-> key, slot |-> slot]
  IN SiftUp((slot :> input) @@ pairVec, slot, input)

\* A pop that leaves the bottom element at the head.
RefileNot(pairVec, bot, idx, keyRefile, slotRefile) == pairVec

\* BHeap::slotPop: pops the head and refiles the bottom element.
RECURSIVE Refile(_, _, _, _, _)
Refile(pairVec, bot, idx, keyRefile, slotRefile) ==
  LET descL == 1 + 2 * idx
      descR == 2 * (1 + idx)
  IN IF \/ (descR <= bot /\ KeyGt(keyRefile, pairVec[descR].key))
        \/ (descL <= bot /\ KeyGt(keyRefile, pairVec[descL].key))
     THEN LET chIdx == IF descR <= bot /\ KeyGt(pairVec[descL].key, pairVec[descR].key)
                       THEN descR ELSE descL
          IN Refile([pairVec EXCEPT ![idx] = pairVec[chIdx],
                                    ![chIdx] = [key |-> keyRefile, slot |-> slotRefile]],
                    bot, chIdx, keyRefile, slotRefile)
     ELSE pairVec

slotPop(pairVec, bot) ==
  [ret |-> pairVec[0].slot,
   heap |-> IF bot = 0 THEN pairVec
            ELSE Refile([pairVec EXCEPT ![0] = pairVec[bot]], bot, 0,
                        pairVec[bot].key, pairVec[bot].slot)]

\* BHeap::depopulate: pops 'pop' slots in heap order into the out vector.
RECURSIVE depopulate(_, _, _, _)
depopulate(pairVec, lhOut, pop, bot) ==
  IF bot < 0 THEN lhOut
  ELSE LET p == slotPop(pairVec, bot)
       IN depopulate(p.heap, Append(lhOut, p.ret), pop, bot - 1)

RECURSIVE HeapInsertAll(_, _, _)
HeapInsertAll(keys, slot, pairVec) ==
  IF slot >= Len(keys) THEN pairVec
  ELSE HeapInsertAll(keys, slot + 1, insert(pairVec, slot, Slot(keys, slot)))

\* RunSet::heapMean followed by dePop: slots in heap order of mean response.
heapMean(rs) ==
  LET keys == [k \in 1 .. rs.runCount |-> Frac(rs.runZero[k].sum, rs.runZero[k].sCount)]
      heap == HeapInsertAll(keys, 0, <<>>)
  IN depopulate(heap, <<>>, rs.runCount, rs.runCount - 1)

\* RunSet::heapBinary followed by dePop: heap order of category-1 proportion.
heapBinary(rs) ==
  LET keys == [k \in 1 .. rs.runCount |-> Frac(rs.runZero[k].ctgSum[1], rs.runZero[k].sum)]
      heap == HeapInsertAll(keys, 0, <<>>)
  IN depopulate(heap, <<>>, rs.runCount, rs.runCount - 1)

\* RunSet::lHCounts
lHCounts(rs, slot) == [extent |-> Slot(rs.runZero, slot).extent,
                       sCount |-> Slot(rs.runZero, slot).sCount]

\* RunSet::lHSlots: sample and index counts of out slots 0 .. cut.
lHSlots(rs, outZero, cut) ==
  [lhExtent |-> SumOver([o \in 0 .. cut |-> lHCounts(rs, Slot(outZero, o)).extent], 0 .. cut),
   lhSampCt |-> SumOver([o \in 0 .. cut |-> lHCounts(rs, Slot(outZero, o)).sCount], 0 .. cut),
   runsLH |-> cut + 1,
   outZero |-> outZero]

\* NuxLH::Init: the split nucleus of a factor split, with the left-hand
\* out slots kept by the run set.
NuxInit(op, c, rs, lh, info) ==
  [split |-> TRUE, op |-> op, idxStart |-> c.idxStart, lhExtent |-> lh.lhExtent,
   lhSCount |-> lh.lhSampCt, info |-> info, runsLH |-> lh.runsLH, outZero |-> lh.outZero,
   runZero |-> rs.runZero]

\* SplitCoord::HeapSplit: best cut over the heap-ordered runs.
RECURSIVE HeapSplitLoop(_, _, _, _)
HeapSplitLoop(c, rs, outZero, s) ==
  IF s.outSlot >= rs.runCount - 1 THEN s
  ELSE LET run == Slot(rs.runZero, Slot(outZero, s.outSlot))
           sumL == s.sumL + run.sum
           lhSCount == s.lhSCount + run.sCount
           sCountR == c.sCount - lhSCount
           sumR == c.sum - sumL
           cutGini == infoVar(sumL, sumR, lhSCount, sCountR)
           hit == FGt(cutGini, s.maxGini)
       IN HeapSplitLoop(c, rs, outZero,
            [outSlot |-> s.outSlot + 1, sumL |-> sumL, lhSCount |-> lhSCount,
             maxGini |-> IF hit THEN cutGini ELSE s.maxGini,
             cut |-> IF hit THEN s.outSlot ELSE s.cut])

HeapSplit(c, rs, outZero) ==
  LET s == HeapSplitLoop(c, rs, outZero,
                         [outSlot |-> 0, sumL |-> 0, lhSCount |-> 0,
                          maxGini |-> c.preBias, cut |-> -1])
  IN IF s.cut >= 0
     THEN NuxInit("HeapSplit", c, rs, lHSlots(rs, outZero, s.cut), FSub(s.maxGini, c.preBias))
     ELSE [split |-> FALSE, op |-> "HeapSplit"]

\* SplitCoord::SplitFac, regression.
SplitFacReg(c) == LET rs == RunsReg(c) IN HeapSplit(c, rs, heapMean(rs))

\* RunSet::SumBinary (runset.h, accumBinary): the two category cells of an
\* out slot, and whether it is distinguishable from its successor.
SumBinary(rs, outZero, outPos) ==
  LET run == Slot(rs.runZero, Slot(outZero, outPos))
      next == Slot(rs.runZero, Slot(outZero, outPos + 1))
  IN [cell0 |-> run.ctgSum[0], cell1 |-> run.ctgSum[1],
      splitable |-> IF run.sCount # next.sCount THEN TRUE
                    ELSE next.ctgSum[1] - run.ctgSum[1] >= 1]

\* SplitCoord::SplitBinary: two-category factor split over heap-ordered runs.
RECURSIVE SplitBinaryLoop(_, _, _, _)
SplitBinaryLoop(c, rs, outZero, s) ==
  IF s.outSlot >= rs.runCount - 1 THEN s
  ELSE LET b == SumBinary(rs, outZero, s.outSlot)
           totR0 == CtgSum(c, 0)
           totR1 == CtgSum(c, 1)
           sumL0 == s.sumL0 + b.cell0
           sumL1 == s.sumL1 + b.cell1
           sumL == sumL0 + sumL1
           sumR == c.sum - sumL
           ssL == sumL0 * sumL0 + sumL1 * sumL1
           ssR == (totR0 - sumL0) * (totR0 - sumL0) + (totR1 - sumL1) * (totR1 - sumL1)
           cutGini == infoGini(ssL, ssR, sumL, sumR)
           hit == b.splitable /\ StableDenoms(sumL, sumR) /\ FGt(cutGini, s.maxGini)
       IN SplitBinaryLoop(c, rs, outZero,
            [outSlot |-> s.outSlot + 1, sumL0 |-> sumL0, sumL1 |-> sumL1,
             maxGini |-> IF hit THEN cutGini ELSE s.maxGini,
             cut |-> IF hit THEN s.outSlot ELSE s.cut])

SplitBinary(c, rs) ==
  LET outZero == heapBinary(rs)
      s == SplitBinaryLoop(c, rs, outZero,
                           [outSlot |-> 0, sumL0 |-> 0, sumL1 |-> 0,
                            maxGini |-> c.preBias, cut |-> -1])
  IN IF s.cut >= 0
     THEN NuxInit("SplitBinary", c, rs, lHSlots(rs, outZero, s.cut), FSub(s.maxGini, c.preBias))
     ELSE [split |-> FALSE, op |-> "SplitBinary"]

\* RunSet::effCount
effCount(rs) == IF rs.runCount > maxWidth THEN maxWidth ELSE rs.runCount

RECURSIVE Pow2(_)
Pow2(k) == IF k <= 0 THEN 1 ELSE 2 * Pow2(k - 1)

\* A test of the bit one place above the slot's.
BitSetAbove(bits, slot) == (bits \div Pow2(slot + 1)) % 2 = 1

\* (bits & (1 << slot)) != 0
BitSet(bits, slot) == (bits \div Pow2(slot)) % 2 = 1

\* SPCtg::StableSums
StableSums(sumL, sumR) == sumL > 0 /\ sumR > 0

\* RunSet::implicitLeft
implicitLeft(rs, outZero, runsLH) ==
  /\ rs.hasImplicit
  /\ \E runIdx \in 0 .. (runsLH - 1) : Slot(rs.runZero, Slot(outZero, runIdx)).start = noStart

\* Ascending sequence of the members of a finite set of integers.
RECURSIVE SortedSeq(_)
SortedSeq(S) ==
  IF S = {} THEN <<>>
  ELSE LET m == CHOOSE x \in S : \A y \in S : x <= y IN <<m>> \o SortedSeq(S \ {m})

\* RunSet::lHBits: decodes the bit vector of left-hand slots.
lHBits(rs, lhBits) ==
  LET slotSup == effCount(rs) - 1
      left == {slot \in 0 .. (slotSup - 1) : BitSet(lhBits, slot)}
      lhOut == SortedSeq(left)
      runsLH == Len(lhOut)
      right == {slot \in 0 .. (effCount(rs) - 1) : ~BitSet(lhBits, slot)}
  IN [lhExtent |-> SumOver([k \in left |-> lHCounts(rs, k).extent], left),
      lhSampCt |-> SumOver([k \in left |-> lHCounts(rs, k).sCount], left),
      runsLH |-> runsLH,
      outZero |-> IF implicitLeft(rs, lhOut, runsLH) THEN lhOut \o SortedSeq(right) ELSE lhOut]

\* RunSet::deWide: the post-shrink run count.
deWide(rs) == IF rs.runCount <= maxWidth THEN rs.runCount ELSE maxWidth

\* RunSet::heapRandom: every slot enters the heap keyed by its variate.
heapRandom(rs, rvZero) == HeapInsertAll(rvZero, 0, <<>>)

\* RunSet::dePop: pops 'pop' slots (all of them when pop = 0) into the out vector.
dePop(rs, heapZero, pop) ==
  LET n == IF pop = 0 THEN rs.runCount ELSE pop
  IN depopulate(heapZero, <<>>, n, n - 1)

\* The category checkerboard of a run set, row-major by slot (ctgZero).
CtgBoard(rs, ctgWidth) ==
  [k \in 1 .. (rs.runCount * ctgWidth) |->
     Slot(rs.runZero, (k - 1) \div ctgWidth).ctgSum[(k - 1) % ctgWidth]]

\* A deWide whose checkerboard rows stay where they were.
deWideRunsOnly(rs, rvZero, ctgWidth) ==
  IF rs.runCount <= maxWidth
  THEN [ret |-> rs.runCount, runZero |-> rs.runZero, outZero |-> <<>>]
  ELSE LET outZero == dePop(rs, heapRandom(rs, rvZero), maxWidth)
       IN [ret |-> maxWidth,
           runZero |-> [k \in 1 .. rs.runCount |->
                          IF k <= maxWidth
                          THEN [rs.runZero[outZero[k] + 1] EXCEPT !.ctgSum = rs.runZero[k].ctgSum]
                          ELSE rs.runZero[k]],
           outZero |-> outZero]

\* RunSet::deWide with the run set it leaves: the runs of the first maxWidth
\* popped slots, and their checkerboard rows, are copied out and written back
\* over slots 0 .. maxWidth - 1.
deWideSet(rs, rvZero, ctgWidth) ==
  IF rs.runCount <= maxWidth
  THEN [ret |-> rs.runCount, runZero |-> rs.runZero, outZero |-> <<>>]
  ELSE LET heapZero == heapRandom(rs, rvZero)
           outZero == dePop(rs, heapZero, maxWidth)
           ctgZero == CtgBoard(rs, ctgWidth)
           tempRun == [i \in 0 .. (maxWidth - 1) |-> Slot(rs.runZero, Slot(outZero, i))]
           tempSum == [j \in 0 .. (ctgWidth * maxWidth - 1) |->
                         Slot(ctgZero, Slot(outZero, j \div ctgWidth) * ctgWidth + (j % ctgWidth))]
       IN [ret |-> maxWidth,
           runZero |-> [k \in 1 .. rs.runCount |->
                          IF k <= maxWidth
                          THEN [tempRun[k - 1] EXCEPT
                                  !.ctgSum = [g \in 0 .. (ctgWidth - 1) |->
                                                tempSum[(k - 1) * ctgWidth + g]]]
                          ELSE rs.runZero[k]],
           outZero |-> outZero]

\* Score of one subset of slots in SplitRuns.
SubsetGini(c, rs, subset, slotSup) ==
  LET in == {slot \in 0 .. (slotSup - 1) : BitSet(subset, slot)}
      sumCtg == [g \in Ctgs(c.nCtg) |-> SumOver([k \in in |-> Slot(rs.runZero, k).ctgSum[g]], in)]
      sumL == SumOver(sumCtg, Ctgs(c.nCtg))
      ssL == SumOver([g \in Ctgs(c.nCtg) |-> sumCtg[g] * sumCtg[g]], Ctgs(c.nCtg))
      ssR == SumOver([g \in Ctgs(c.nCtg) |->
                        (CtgSum(c, g) - sumCtg[g]) * (CtgSum(c, g) - sumCtg[g])], Ctgs(c.nCtg))
      sumR == c.sum - sumL
  IN [stable |-> StableSums(sumL, sumR), gini |-> infoGini(ssL, ssR, sumL, sumR)]

\* SplitCoord::SplitRuns: argmax over the nonempty subsets 1 .. leftFull.
RECURSIVE SplitRunsLoop(_, _, _, _, _)
SplitRunsLoop(c, rs, subset, leftFull, s) ==
  IF subset > leftFull THEN s
  ELSE LET g == SubsetGini(c, rs, subset, s.slotSup)
           hit == g.stable /\ FGt(g.gini, s.maxGini)
       IN SplitRunsLoop(c, rs, subset + 1, leftFull,
            [s EXCEPT !.maxGini = IF hit THEN g.gini ELSE @,
                      !.lhBits = IF hit THEN subset ELSE @,
                      !.visited = Append(@, subset)])

SplitRuns(c, rs) ==
  LET countEff == deWide(rs)
      slotSup == countEff - 1
      leftFull == Pow2(slotSup) - 1
      s == SplitRunsLoop(c, rs, 1, leftFull,
                         [slotSup |-> slotSup, maxGini |-> c.preBias, lhBits |-> 0,
                          visited |-> <<>>])
  IN IF s.lhBits > 0
     THEN NuxInit("SplitRuns", c, rs, lHBits(rs, s.lhBits), FSub(s.maxGini, c.preBias))
          @@ [lhBits |-> s.lhBits, visited |-> s.visited]
     ELSE [split |-> FALSE, op |-> "SplitRuns", visited |-> s.visited]

\* SplitCoord::SplitFac, classification.
SplitFacCtg(c) ==
  LET rs == RunsCtg(c) IN IF c.nCtg = 2 THEN SplitBinary(c, rs) ELSE SplitRuns(c, rs)

NoNux == [split |-> FALSE, op |-> "none"]

\* Values of the variables of the phases a behaviour does not exercise.
NoCand == [info |-> 0, lhSCount |-> 0, lhExtent |-> 0]

RootSet == [depth |-> 0, extent |-> MaxExtent, sCount |-> MaxExtent, minInfo |-> Frac(0, 1),
            parentInfo |-> 0]

IdleSplit == cand = <<>> /\ nux = NoNux /\ pc = "idle"

IdleConsume ==
  /\ minRatio = Frac(0, 1) /\ iSet = RootSet /\ splitCand = <<>> /\ argMax = NoCand
  /\ succ = <<>> /\ phase = "idle"

IdleSample ==
  /\ nRow = 0 /\ rvRow = <<>> /\ sCountRow = <<>> /\ bagCount = 0 /\ idxBinned = <<>>
  /\ wrote = <<>> /\ fault = FALSE /\ spc = "idle"

\* A phase the behaviour does not exercise.
Idle == [pc |-> "idle"]

IdleExt == restage = Idle /\ stage = Idle /\ runSet = Idle /\ wideSet = Idle /\ replay = Idle /\ level = Idle /\ monoSt = Idle /\ idxPath = Idle /\ trainSt = Idle /\ heapSt = Idle /\ scanSt = Idle /\ facRep = Idle /\ bufSt = Idle /\ rootSt = Idle /\ preSt = Idle /\ rankQ = Idle /\ packSt = Idle

restageOthers == <<splitVars, consumeVars, sampleVars, stage, runSet, wideSet, replay, level, monoSt, idxPath, trainSt, heapSt, scanSt, facRep, bufSt, rootSt, preSt, rankQ, packSt>>

restagePeersIdle == stage = Idle /\ runSet = Idle /\ wideSet = Idle /\ replay = Idle /\ level = Idle /\ monoSt = Idle /\ idxPath = Idle /\ trainSt = Idle /\ heapSt = Idle /\ scanSt = Idle /\ facRep = Idle /\ bufSt = Idle /\ rootSt = Idle /\ preSt = Idle /\ rankQ = Idle /\ packSt = Idle

restageOthersIdle == IdleSplit /\ IdleConsume /\ IdleSample /\ restagePeersIdle

stageOthers == <<splitVars, consumeVars, sampleVars, restage, runSet, wideSet, replay, level, monoSt, idxPath, trainSt, heapSt, scanSt, facRep, bufSt, rootSt, preSt, rankQ, packSt>>

stagePeersIdle == restage = Idle /\ runSet = Idle /\ wideSet = Idle /\ replay = Idle /\ level = Idle /\ monoSt = Idle /\ idxPath = Idle /\ trainSt = Idle /\ heapSt = Idle /\ scanSt = Idle /\ facRep = Idle /\ bufSt = Idle /\ rootSt = Idle /\ preSt = Idle /\ rankQ = Idle /\ packSt = Idle

stageOthersIdle == IdleSplit /\ IdleConsume /\ IdleSample /\ stagePeersIdle

runSetOthers == <<splitVars, consumeVars, sampleVars, restage, stage, wideSet, replay, level, monoSt, idxPath, trainSt, heapSt, scanSt, facRep, bufSt, rootSt, preSt, rankQ, packSt>>

runSetPeersIdle == restage = Idle /\ stage = Idle /\ wideSet = Idle /\ replay = Idle /\ level = Idle /\ monoSt = Idle /\ idxPath = Idle /\ trainSt = Idle /\ heapSt = Idle /\ scanSt = Idle /\ facRep = Idle /\ bufSt = Idle /\ rootSt = Idle /\ preSt = Idle /\ rankQ = Idle /\ packSt = Idle

runSetOthersIdle == IdleSplit /\ IdleConsume /\ IdleSample /\ runSetPeersIdle

wideSetOthers == <<splitVars, consumeVars, sampleVars, restage, stage, runSet, replay, level, monoSt, idxPath, trainSt, heapSt, scanSt, facRep, bufSt, rootSt, preSt, rankQ, packSt>>

wideSetPeersIdle == restage = Idle /\ stage = Idle /\ runSet = Idle /\ replay = Idle /\ level = Idle /\ monoSt = Idle /\ idxPath = Idle /\ trainSt = Idle /\ heapSt = Idle /\ scanSt = Idle /\ facRep = Idle /\ bufSt = Idle /\ rootSt = Idle /\ preSt = Idle /\ rankQ = Idle /\ packSt = Idle

wideSetOthersIdle == IdleSplit /\ IdleConsume /\ IdleSample /\ wideSetPeersIdle

replayOthers == <<splitVars, consumeVars, sampleVars, restage, stage, runSet, wideSet, level, monoSt, idxPath, trainSt, heapSt, scanSt, facRep, bufSt, rootSt, preSt, rankQ, packSt>>

replayPeersIdle == restage = Idle /\ stage = Idle /\ runSet = Idle /\ wideSet = Idle /\ level = Idle /\ monoSt = Idle /\ idxPath = Idle /\ trainSt = Idle /\ heapSt = Idle /\ scanSt = Idle /\ facRep = Idle /\ bufSt = Idle /\ rootSt = Idle /\ preSt = Idle /\ rankQ = Idle /\ packSt = Idle

replayOthersIdle == IdleSplit /\ IdleConsume /\ IdleSample /\ replayPeersIdle

levelOthers == <<splitVars, consumeVars, sampleVars, restage, stage, runSet, wideSet, replay, monoSt, idxPath, trainSt, heapSt, scanSt, facRep, bufSt, rootSt, preSt, rankQ, packSt>>

levelPeersIdle == restage = Idle /\ stage = Idle /\ runSet = Idle /\ wideSet = Idle /\ replay = Idle /\ monoSt = Idle /\ idxPath = Idle /\ trainSt = Idle /\ heapSt = Idle /\ scanSt = Idle /\ facRep = Idle /\ bufSt = Idle /\ rootSt = Idle /\ preSt = Idle /\ rankQ = Idle /\ packSt = Idle

levelOthersIdle == IdleSplit /\ IdleConsume /\ IdleSample /\ levelPeersIdle

monoStOthers == <<splitVars, consumeVars, sampleVars, restage, stage, runSet, wideSet, replay, level, idxPath, trainSt, heapSt, scanSt, facRep, bufSt, rootSt, preSt, rankQ, packSt>>

monoStPeersIdle == restage = Idle /\ stage = Idle /\ runSet = Idle /\ wideSet = Idle /\ replay = Idle /\ level = Idle /\ idxPath = Idle /\ trainSt = Idle /\ heapSt = Idle /\ scanSt = Idle /\ facRep = Idle /\ bufSt = Idle /\ rootSt = Idle /\ preSt = Idle /\ rankQ = Idle /\ packSt = Idle

monoStOthersIdle == IdleSplit /\ IdleConsume /\ IdleSample /\ monoStPeersIdle

idxPathOthers == <<splitVars, consumeVars, sampleVars, restage, stage, runSet, wideSet, replay, level, monoSt, trainSt, heapSt, scanSt, facRep, bufSt, rootSt, preSt, rankQ, packSt>>

idxPathPeersIdle == restage = Idle /\ stage = Idle /\ runSet = Idle /\ wideSet = Idle /\ replay = Idle /\ level = Idle /\ monoSt = Idle /\ trainSt = Idle /\ heapSt = Idle /\ scanSt = Idle /\ facRep = Idle /\ bufSt = Idle /\ rootSt = Idle /\ preSt = Idle /\ rankQ = Idle /\ packSt = Idle

idxPathOthersIdle == IdleSplit /\ IdleConsume /\ IdleSample /\ idxPathPeersIdle

trainStOthers == <<splitVars, consumeVars, sampleVars, restage, stage, runSet, wideSet, replay, level, monoSt, idxPath, heapSt, scanSt, facRep, bufSt, rootSt, preSt, rankQ, packSt>>

trainStPeersIdle == restage = Idle /\ stage = Idle /\ runSet = Idle /\ wideSet = Idle /\ replay = Idle /\ level = Idle /\ monoSt = Idle /\ idxPath = Idle /\ heapSt = Idle /\ scanSt = Idle /\ facRep = Idle /\ bufSt = Idle /\ rootSt = Idle /\ preSt = Idle /\ rankQ = Idle /\ packSt = Idle

trainStOthersIdle == IdleSplit /\ IdleConsume /\ IdleSample /\ trainStPeersIdle

heapStOthers == <<splitVars, consumeVars, sampleVars, restage, stage, runSet, wideSet, replay, level, monoSt, idxPath, trainSt, scanSt, facRep, bufSt, rootSt, preSt, rankQ, packSt>>

heapStPeersIdle == restage = Idle /\ stage = Idle /\ runSet = Idle /\ wideSet = Idle /\ replay = Idle /\ level = Idle /\ monoSt = Idle /\ idxPath = Idle /\ trainSt = Idle /\ scanSt = Idle /\ facRep = Idle /\ bufSt = Idle /\ rootSt = Idle /\ preSt = Idle /\ rankQ = Idle /\ packSt = Idle

heapStOthersIdle == IdleSplit /\ IdleConsume /\ IdleSample /\ heapStPeersIdle

scanStOthers == <<splitVars, consumeVars, sampleVars, restage, stage, runSet, wideSet, replay, level, monoSt, idxPath, trainSt, heapSt, facRep, bufSt, rootSt, preSt, rankQ, packSt>>

scanStPeersIdle == restage = Idle /\ stage = Idle /\ runSet = Idle /\ wideSet = Idle /\ replay = Idle /\ level = Idle /\ monoSt = Idle /\ idxPath = Idle /\ trainSt = Idle /\ heapSt = Idle /\ facRep = Idle /\ bufSt = Idle /\ rootSt = Idle /\ preSt = Idle /\ rankQ = Idle /\ packSt = Idle

scanStOthersIdle == IdleSplit /\ IdleConsume /\ IdleSample /\ scanStPeersIdle

facRepOthers == <<splitVars, consumeVars, sampleVars, restage, stage, runSet, wideSet, replay, level, monoSt, idxPath, trainSt, heapSt, scanSt, bufSt, rootSt, preSt, rankQ, packSt>>

facRepPeersIdle == restage = Idle /\ stage = Idle /\ runSet = Idle /\ wideSet = Idle /\ replay = Idle /\ level = Idle /\ monoSt = Idle /\ idxPath = Idle /\ trainSt = Idle /\ heapSt = Idle /\ scanSt = Idle /\ bufSt = Idle /\ rootSt = Idle /\ preSt = Idle /\ rankQ = Idle /\ packSt = Idle

facRepOthersIdle == IdleSplit /\ IdleConsume /\ IdleSample /\ facRepPeersIdle

bufStOthers == <<splitVars, consumeVars, sampleVars, restage, stage, runSet, wideSet, replay, level, monoSt, idxPath, trainSt, heapSt, scanSt, facRep, rootSt, preSt, rankQ, packSt>>

bufStPeersIdle == restage = Idle /\ stage = Idle /\ runSet = Idle /\ wideSet = Idle /\ replay = Idle /\ level = Idle /\ monoSt = Idle /\ idxPath = Idle /\ trainSt = Idle /\ heapSt = Idle /\ scanSt = Idle /\ facRep = Idle /\ rootSt = Idle /\ preSt = Idle /\ rankQ = Idle /\ packSt = Idle

bufStOthersIdle == IdleSplit /\ IdleConsume /\ IdleSample /\ bufStPeersIdle

rootStOthers == <<splitVars, consumeVars, sampleVars, restage, stage, runSet, wideSet, replay, level, monoSt, idxPath, trainSt, heapSt, scanSt, facRep, bufSt, preSt, rankQ, packSt>>

rootStPeersIdle == restage = Idle /\ stage = Idle /\ runSet = Idle /\ wideSet = Idle /\ replay = Idle /\ level = Idle /\ monoSt = Idle /\ idxPath = Idle /\ trainSt = Idle /\ heapSt = Idle /\ scanSt = Idle /\ facRep = Idle /\ bufSt = Idle /\ preSt = Idle /\ rankQ = Idle /\ packSt = Idle

rootStOthersIdle == IdleSplit /\ IdleConsume /\ IdleSample /\ rootStPeersIdle

preStOthers == <<splitVars, consumeVars, sampleVars, restage, stage, runSet, wideSet, replay, level, monoSt, idxPath, trainSt, heapSt, scanSt, facRep, bufSt, rootSt, rankQ, packSt>>

preStPeersIdle == restage = Idle /\ stage = Idle /\ runSet = Idle /\ wideSet = Idle /\ replay = Idle /\ level = Idle /\ monoSt = Idle /\ idxPath = Idle /\ trainSt = Idle /\ heapSt = Idle /\ scanSt = Idle /\ facRep = Idle /\ bufSt = Idle /\ rootSt = Idle /\ rankQ = Idle /\ packSt = Idle

preStOthersIdle == IdleSplit /\ IdleConsume /\ IdleSample /\ preStPeersIdle

rankQOthers == <<splitVars, consumeVars, sampleVars, restage, stage, runSet, wideSet, replay, level, monoSt, idxPath, trainSt, heapSt, scanSt, facRep, bufSt, rootSt, preSt, packSt>>

rankQPeersIdle == restage = Idle /\ stage = Idle /\ runSet = Idle /\ wideSet = Idle /\ replay = Idle /\ level = Idle /\ monoSt = Idle /\ idxPath = Idle /\ trainSt = Idle /\ heapSt = Idle /\ scanSt = Idle /\ facRep = Idle /\ bufSt = Idle /\ rootSt = Idle /\ preSt = Idle /\ packSt = Idle

rankQOthersIdle == IdleSplit /\ IdleConsume /\ IdleSample /\ rankQPeersIdle

packStOthers == <<splitVars, consumeVars, sampleVars, restage, stage, runSet, wideSet, replay, level, monoSt, idxPath, trainSt, heapSt, scanSt, facRep, bufSt, rootSt, preSt, rankQ>>

packStPeersIdle == restage = Idle /\ stage = Idle /\ runSet = Idle /\ wideSet = Idle /\ replay = Idle /\ level = Idle /\ monoSt = Idle /\ idxPath = Idle /\ trainSt = Idle /\ heapSt = Idle /\ scanSt = Idle /\ facRep = Idle /\ bufSt = Idle /\ rootSt = Idle /\ preSt = Idle /\ rankQ = Idle

packStOthersIdle == IdleSplit /\ IdleConsume /\ IdleSample /\ packStPeersIdle

----------------------------------------------------------------------------
(* The split phase of one candidate.                                       *)

\* Response sums and sample counts a staged cell can carry.  For
\* classification the response proxy of a sample is its sample count
\* (unit class weights); with more than two categories only the first
\* category carries multiplicities.
CellVals(resp, nCtg) ==
  IF resp = "reg"
  THEN {[ySum |-> y, sCount |-> k, ctg |-> 0] : y \in YSums, k \in SCounts}
  ELSE {v \in {[ySum |-> k, sCount |-> k, ctg |-> g] : k \in SCounts, g \in Ctgs(nCtg)} :
          nCtg > 2 /\ v.ctg > 0 => v.sCount = 1}

\* Response, predictor type and category count of the candidates modelled.
Kinds ==
  {[resp |-> "reg", fac |-> FALSE, nCtg |-> 1], [resp |-> "ctg", fac |-> FALSE, nCtg |-> 2],
   [resp |-> "reg", fac |-> TRUE, nCtg |-> 1], [resp |-> "ctg", fac |-> TRUE, nCtg |-> 2],
   [resp |-> "ctg", fac |-> TRUE, nCtg |-> 3]}

\* The candidate staged from the given cells and implicit samples.
Staged(k, mono, idxStart, cells, dns, rankDense) ==
  InitLate([resp |-> k.resp, fac |-> k.fac, nCtg |-> k.nCtg, monoMode |-> mono,
            idxStart |-> idxStart,
            spn |-> [i \in idxStart .. (idxStart + Len(cells) - 1) |-> cells[i - idxStart + 1]],
            dns |-> dns, rankDense |-> rankDense])

\* The candidate staged from n cells with the given tie pattern, values and
\* implicit samples; the cells end at the top of a buffer of MaxCells cells.
MkCand(k, mono, n, tie, val, dns, densePos) ==
  LET hasDense == Len(dns) > 0
  IN Staged(k, mono, MaxCells - n,
            [j \in 1 .. n |-> [rank |-> CellRank(tie, j, hasDense, densePos),
                               ySum |-> val[j].ySum, sCount |-> val[j].sCount,
                               ctg |-> val[j].ctg]],
            dns, IF hasDense THEN densePos ELSE -1)

\* The implicit block: none, or ImplicitCount samples of one value.
DenseBlocks(k) ==
  {<<>>} \cup {[j \in 1 .. ImplicitCount |-> v] : v \in CellVals(k.resp, k.nCtg)}

\* Constraint modes a candidate of kind k can be split under.
MonoModes(k) == IF k.resp = "reg" /\ ~k.fac THEN {-1, 0, 1} ELSE {0}

InitCand(kinds) ==
  \E k \in kinds, n \in 1 .. MaxCells :
    \E tie \in [2 .. n -> BOOLEAN], val \in [1 .. n -> CellVals(k.resp, k.nCtg)] :
      \E dns \in DenseBlocks(k), mono \in MonoModes(k) :
        \E densePos \in IF dns = <<>> THEN {0} ELSE 0 .. (Steps(tie, n) + 1) :
          cand = MkCand(k, mono, n, tie, val, dns, densePos)

\* One sample of response y (category g) at the given rank.
Obs(rank, y, g) == [rank |-> rank, ySum |-> y, sCount |-> 1, ctg |-> g]

RegNum == [resp |-> "reg", fac |-> FALSE, nCtg |-> 1]

CtgFac == [resp |-> "ctg", fac |-> TRUE, nCtg |-> 2]

\* Predictor 1..6, response 1, 1, 1, 10, 10, 10.
ScenarioStep ==
  Staged(RegNum, 0, 0, <<Obs(0, 1, 0), Obs(1, 1, 0), Obs(2, 1, 0),
                          Obs(3, 10, 0), Obs(4, 10, 0), Obs(5, 10, 0)>>, <<>>, -1)

\* Factor codes 0, 0, 1, 1 with classes A, B, A, B.
ScenarioBalanced ==
  Staged(CtgFac, 0, 0, <<Obs(0, 1, 0), Obs(0, 1, 1), Obs(1, 1, 0), Obs(1, 1, 1)>>, <<>>, -1)

\* Predictor 5 (eight times, residual), 1, 9 with the response equal to it.
ScenarioDense ==
  Staged(RegNum, 0, 0, <<Obs(0, 1, 0), Obs(2, 9, 0)>>, [j \in 1 .. 8 |-> Obs(1, 5, 0)], 1)

\* Predictor 1..4, response 4, 3, 2, 1 under the non-decreasing constraint.
ScenarioMono ==
  Staged(RegNum, 1, 0, <<Obs(0, 4, 0), Obs(1, 3, 0), Obs(2, 2, 0), Obs(3, 1, 0)>>, <<>>, -1)

Scenarios == {ScenarioStep, ScenarioBalanced, ScenarioDense, ScenarioMono}

InitSplit ==
  /\ (InitCand(Kinds) \/ cand \in Scenarios)
  /\ nux = NoNux
  /\ pc = "sched"
  /\ IdleConsume /\ IdleSample /\ IdleExt

\* SplitCoord::Split dispatch, one action per splitting method.
IsNumReg(c) == c.resp = "reg" /\ ~c.fac

IsNumCtg(c) == c.resp = "ctg" /\ ~c.fac

Finish(result) ==
  /\ nux' = result
  /\ pc' = "split"
  /\ UNCHANGED <<cand, consumeVars, sampleVars, extVars>>

DoSplitNum ==
  /\ pc = "sched" /\ IsNumReg(cand) /\ cand.monoMode = 0 /\ cand.implicit = 0
  /\ Finish(SplitNum(cand))

DoSplitNumMono ==
  /\ pc = "sched" /\ IsNumReg(cand) /\ cand.monoMode # 0 /\ cand.implicit = 0
  /\ Finish(SplitNumMono(cand.monoMode > 0, cand))

DoSplitNumDense ==
  /\ pc = "sched" /\ IsNumReg(cand) /\ cand.monoMode = 0 /\ cand.implicit > 0
  /\ Finish(SplitNumDense(cand))

DoSplitNumDenseMono ==
  /\ pc = "sched" /\ IsNumReg(cand) /\ cand.monoMode # 0 /\ cand.implicit > 0
  /\ Finish(SplitNumDenseMono(cand.monoMode > 0, cand))

DoSplitReg ==
  /\ pc = "sched" /\ IsNumReg(cand)
  /\ Finish(splitReg(cand))

DoNumCtg ==
  /\ pc = "sched" /\ IsNumCtg(cand) /\ cand.implicit = 0
  /\ Finish(NumCtg(cand))

DoNumCtgDense ==
  /\ pc = "sched" /\ IsNumCtg(cand) /\ cand.implicit > 0
  /\ Finish(NumCtgDense(cand))

DoSplitFacReg ==
  /\ pc = "sched" /\ cand.resp = "reg" /\ cand.fac
  /\ Finish(SplitFacReg(cand))

DoSplitFacCtg ==
  /\ pc = "sched" /\ cand.resp = "ctg" /\ cand.fac
  /\ Finish(SplitFacCtg(cand))

NextSplit ==
  \/ DoSplitNum
  \/ DoSplitNumMono
  \/ DoSplitNumDense
  \/ DoSplitNumDenseMono
  \/ DoSplitReg
  \/ DoNumCtg
  \/ DoNumCtgDense
  \/ DoSplitFacReg
  \/ DoSplitFacCtg

SpecSplit == InitSplit /\ [][NextSplit]_vars

----------------------------------------------------------------------------
(* Argmax and consumption of the winning split of a node (SplitNux,        *)
(* splitnux.cc; SplitPred::ArgMax, splitpred.cc).                          *)

FMul(a, k) == Frac(a.n * k, a.d)

\* Values of the information ratio floor (SplitNux::minRatio).
Ratios == {Frac(0, 1), Frac(1, 2), Frac(1, 1)}

\* A criterion that hands down the winner's information unscaled.
consumeUnscaled(nx) ==
  [minInfo |-> Frac(nx.info, 1), lhSCount |-> nx.lhSCount, lhExtent |-> nx.lhExtent]

\* SplitNux::consume: the criterion handed to IndexSet::consumeCriterion.
consume(nx) ==
  [minInfo |-> FMul(minRatio, nx.info), lhSCount |-> nx.lhSCount, lhExtent |-> nx.lhExtent]

\* IndexSet::consumeCriterion and the successors it gives rise to: both
\* inherit the threshold; extents and sample counts are those of the sides.
Successors(is, crit, info) ==
  <<[depth |-> is.depth + 1, extent |-> crit.lhExtent, sCount |-> crit.lhSCount,
     minInfo |-> crit.minInfo, parentInfo |-> info],
    [depth |-> is.depth + 1, extent |-> is.extent - crit.lhExtent,
     sCount |-> is.sCount - crit.lhSCount, minInfo |-> crit.minInfo, parentInfo |-> info]>>

\* SSNode::ArgMax: position of the candidate of greatest information above
\* the node's threshold, the first of equals; zero when there is none.
RECURSIVE ArgMaxLoop(_, _, _, _)
ArgMaxLoop(cs, k, best, maxInfo) ==
  IF k > Len(cs) THEN best
  ELSE IF FGt(Frac(cs[k].info, 1), maxInfo)
       THEN ArgMaxLoop(cs, k + 1, k, Frac(cs[k].info, 1))
       ELSE ArgMaxLoop(cs, k + 1, best, maxInfo)

ArgMaxOf(is, cs) == ArgMaxLoop(cs, 1, 0, is.minInfo)

\* Results of the split phase for a node: info zero stands for no split.
CandsOf(is) ==
  UNION {[1 .. n -> [info : 0 .. MaxInfo, lhSCount : 1 .. (is.extent - 1),
                     lhExtent : 1 .. (is.extent - 1)]] : n \in 1 .. MaxCands}

InitConsume ==
  /\ minRatio \in Ratios
  /\ iSet = RootSet /\ splitCand = <<>> /\ argMax = NoCand /\ succ = <<>>
  /\ phase = "unsplit"
  /\ IdleSplit /\ IdleSample /\ IdleExt

\* The split phase leaves the node's candidates; nodes at the depth limit
\* or of a single index are not scheduled.
DoSplit ==
  /\ phase = "unsplit" /\ iSet.depth < MaxLevels /\ iSet.extent > 1
  /\ \E cs \in CandsOf(iSet) : splitCand' = [k \in DOMAIN cs |->
                                  [cs[k] EXCEPT !.lhSCount = cs[k].lhExtent]]
  /\ phase' = "split"
  /\ UNCHANGED <<minRatio, iSet, argMax, succ, splitVars, sampleVars, extVars>>

DoLeaf ==
  /\ phase = "unsplit" /\ ~(iSet.depth < MaxLevels /\ iSet.extent > 1)
  /\ phase' = "terminal"
  /\ UNCHANGED <<minRatio, iSet, splitCand, argMax, succ, splitVars, sampleVars, extVars>>

\* SplitPred::ArgMax for the node.
DoArgMax ==
  /\ phase = "split"
  /\ LET k == ArgMaxOf(iSet, splitCand)
     IN IF k = 0
        THEN argMax' = NoCand /\ phase' = "terminal"
        ELSE argMax' = splitCand[k] /\ phase' = "argmax"
  /\ UNCHANGED <<minRatio, iSet, splitCand, succ, splitVars, sampleVars, extVars>>

\* SplitNux::consume on the winner.
DoConsume ==
  /\ phase = "argmax"
  /\ succ' = Successors(iSet, consume(argMax), argMax.info)
  /\ phase' = "consumed"
  /\ UNCHANGED <<minRatio, iSet, splitCand, argMax, splitVars, sampleVars, extVars>>

\* The next level takes up one of the successors.
DoDescend ==
  /\ phase = "consumed"
  /\ \E s \in {1, 2} : iSet' = succ[s]
  /\ splitCand' = <<>> /\ argMax' = NoCand /\ succ' = <<>>
  /\ phase' = "unsplit"
  /\ UNCHANGED <<minRatio, splitVars, sampleVars, extVars>>

NextConsume ==
  \/ DoSplit
  \/ DoLeaf
  \/ DoArgMax
  \/ DoConsume
  \/ DoDescend

SpecConsume == InitConsume /\ [][NextConsume]_vars

----------------------------------------------------------------------------
(* Row sampling (Sample::RowSample, sample.cc; Sampler, sampler.cc).       *)

\* Number of consecutive indices held by one bin.
BinWidth == 2

\* Sampler::binIdx
binIdx(i) == i \div BinWidth

\* Sample::RowSample: counts the occurrences of each drawn row.
RECURSIVE RowSampleLoop(_, _, _)
RowSampleLoop(rv, k, st) ==
  IF k > Len(rv) THEN st
  ELSE LET row == rv[k]
           sCount == st.sCountRow[row]
       IN RowSampleLoop(rv, k + 1,
                        [sCountRow |-> [st.sCountRow EXCEPT ![row] = sCount + 1],
                         bagCount |-> st.bagCount + (IF sCount = 0 THEN 1 ELSE 0)])

RowSample(rv, rows) ==
  RowSampleLoop(rv, 1, [sCountRow |-> [r \in 0 .. (rows - 1) |-> 0], bagCount |-> 0])

\* First loop of binIndices: binPop[binIdx(val)]++ over a table of 'size'
\* bins; an increment beyond the table is a fault.
RECURSIVE BinPopLoop(_, _, _, _)
BinPopLoop(ix, k, size, st) ==
  IF k > Len(ix) THEN st
  ELSE LET b == binIdx(ix[k])
       IN IF b >= size THEN [st EXCEPT !.fault = TRUE]
          ELSE BinPopLoop(ix, k + 1, size, [st EXCEPT !.binPop[b] = @ + 1])

\* Second loop: population of the bins to the left.
RECURSIVE AccumLoop(_, _, _)
AccumLoop(binPop, i, size) ==
  IF i >= size THEN binPop
  ELSE AccumLoop([binPop EXCEPT ![i] = @ + binPop[i - 1]], i + 1, size)

\* Last loop: writes each index at its bin's available position.
RECURSIVE PlaceLoop(_, _, _, _)
PlaceLoop(ix, k, size, st) ==
  IF k > Len(ix) THEN st
  ELSE LET b == binIdx(ix[k])
       IN IF b >= size THEN [st EXCEPT !.fault = TRUE]
          ELSE LET destIdx == st.idxAvail[b]
               IN IF destIdx < 0 \/ destIdx >= Len(ix) THEN [st EXCEPT !.fault = TRUE]
                  ELSE PlaceLoop(ix, k + 1, size,
                                 [st EXCEPT !.idxAvail[b] = @ - 1,
                                            !.idxBinned[destIdx + 1] = ix[k],
                                            !.wrote[destIdx + 1] = @ + 1])

\* Sampler::binIndices
binIndices(ix) ==
  LET size == 1 + binIdx(Len(ix))
      pop == BinPopLoop(ix, 1, size, [fault |-> FALSE, binPop |-> [b \in 0 .. (size - 1) |-> 0]])
      binPop == AccumLoop(pop.binPop, 1, size)
      st0 == [fault |-> pop.fault, idxAvail |-> [b \in 0 .. (size - 1) |-> binPop[b] - 1],
              idxBinned |-> [j \in 1 .. Len(ix) |-> 0], wrote |-> [j \in 1 .. Len(ix) |-> 0]]
  IN IF pop.fault THEN st0 ELSE PlaceLoop(ix, 1, size, st0)

\* The counting loop of countSamples.
RECURSIVE CountLoop(_, _, _)
CountLoop(ix, k, sc) ==
  IF k > Len(ix) THEN sc ELSE CountLoop(ix, k + 1, [sc EXCEPT ![ix[k]] = @ + 1])

\* What an out-of-table access may leave in the binned vector.
Corrupted(ix, rows) == [1 .. Len(ix) -> 0 .. (rows - 1)]

InitSample ==
  /\ nRow \in 1 .. MaxRow
  /\ \E nSamp \in 1 .. MaxSamp : rvRow \in [1 .. nSamp -> 0 .. (nRow - 1)]
  /\ sCountRow = <<>> /\ bagCount = 0 /\ idxBinned = <<>> /\ wrote = <<>>
  /\ fault = FALSE /\ spc = "drawn"
  /\ IdleSplit /\ IdleConsume /\ IdleExt

DoRowSample ==
  /\ spc = "drawn"
  /\ LET r == RowSample(rvRow, nRow)
     IN sCountRow' = r.sCountRow /\ bagCount' = r.bagCount
  /\ spc' = "RowSample"
  /\ UNCHANGED <<nRow, rvRow, idxBinned, wrote, fault, splitVars, consumeVars, extVars>>

DoBinIndices ==
  /\ spc = "drawn"
  /\ LET r == binIndices(rvRow)
     IN /\ fault' = r.fault
        /\ wrote' = r.wrote
        /\ IF r.fault THEN idxBinned' \in Corrupted(rvRow, nRow) ELSE idxBinned' = r.idxBinned
  /\ spc' = "binIndices"
  /\ UNCHANGED <<nRow, rvRow, sCountRow, bagCount, splitVars, consumeVars, extVars>>

\* Sampler::countSamples
DoCountSamples ==
  /\ spc = "drawn"
  /\ IF binIdx(nRow) > 0
     THEN LET r == binIndices(rvRow)
          IN /\ fault' = r.fault
             /\ wrote' = r.wrote
             /\ IF r.fault THEN idxBinned' \in Corrupted(rvRow, nRow)
                ELSE idxBinned' = r.idxBinned
     ELSE idxBinned' = rvRow /\ UNCHANGED <<fault, wrote>>
  /\ sCountRow' = CountLoop(idxBinned', 1, [r \in 0 .. (nRow - 1) |-> 0])
  /\ spc' = "countSamples"
  /\ UNCHANGED <<nRow, rvRow, bagCount, splitVars, consumeVars, extVars>>

NextSample ==
  \/ DoRowSample
  \/ DoBinIndices
  \/ DoCountSamples

SpecSample == InitSample /\ [][NextSample]_vars

----------------------------------------------------------------------------
(* Paths reaching sample indices (IdxPath / NodePath, path.h).             *)

\* Bitwise conjunction of two naturals.
RECURSIVE BitAnd(_, _)
BitAnd(a, b) ==
  IF a = 0 \/ b = 0 THEN 0 ELSE (a % 2) * (b % 2) + 2 * BitAnd(a \div 2, b \div 2)

\* NodePath::logPathMax, for a path type of one byte.
logPathMax == 7

\* NodePath::noPath: maximal path length, also an inattainable path.
noPath == Pow2(logPathMax)

maskExtinct == noPath

maskLive == maskExtinct - 1

\* Conversions on storing into pathFront (unsigned char) and offFront
\* (uint_least16_t).
ToUChar(x) == x % Pow2(8)

ToUInt16(x) == x % Pow2(16)

\* IdxPath::set(idx, path)
set(ip, idx, path) == [ip EXCEPT !.pathFront[idx] = ToUChar(path)]

\* IdxPath::set(idx, path, relThis, ndOff)
setRel(ip, idx, path, relThis, ndOff) ==
  [ip EXCEPT !.pathFront[idx] = ToUChar(path), !.relFront[idx] = relThis,
             !.offFront[idx] = ToUInt16(ndOff)]

\* IdxPath::isLive
isLive(ip, idx) == BitAnd(ip.pathFront[idx], maskExtinct) = 0

\* IdxPath::PathSucc
PathSucc(ip, idx, pathMask) ==
  [isLive |-> isLive(ip, idx),
   path |-> IF isLive(ip, idx) THEN ToUChar(BitAnd(ip.pathFront[idx], pathMask)) ELSE noPath]

\* A setSuccessor that stores the successor path whether or not it is reached.
setSuccessorReached(ip, idx, pathSucc, doesReach) == set(ip, idx, pathSucc)

\* IdxPath::setSuccessor
setSuccessor(ip, idx, pathSucc, doesReach) ==
  set(ip, idx, IF doesReach THEN pathSucc ELSE noPath)

\* IdxPath::pathNext
pathNext(pathPrev, isLeft) == BitAnd(maskLive, 2 * pathPrev + (IF isLeft THEN 0 ELSE 1))

\* IdxPath::setLive(idx, path, targIdx) and setLive(idx, path, targIdx, ndOff)
setLive(ip, idx, path, targIdx, ndOff) == setRel(ip, idx, path, targIdx, ndOff)

\* IdxPath::setExtinct
setExtinct(ip, idx) == setRel(ip, idx, maskExtinct, ip.idxLive, 0)

\* No reachBase vector (nullptr).
NullBase == <<>>

\* IdxPath::update: the path reaching idx and the index for the next level.
update(ip, idx, pathMask, reachBase, idxUpdate) ==
  LET ps == PathSucc(ip, idx, pathMask)
  IN [path |-> ps.path,
      idx |-> IF ps.isLive
              THEN IF reachBase # NullBase THEN reachBase[ps.path] + ip.offFront[idx]
                   ELSE IF idxUpdate THEN ip.relFront[idx] ELSE idx
              ELSE idx]

----------------------------------------------------------------------------
(* Restaging of a source range (SamplePred, samplepred.cc).                *)

\* One past the target offset just taken: reachOffset[path]++.
nextOffsetStuck(off) == off

nextOffset(off) == off + 1

\* SamplePred::Prepath: localizes the path of each index of the range and
\* counts the hits of each path.
RECURSIVE PrepathLoop(_, _, _, _, _)
PrepathLoop(ip, pathMask, idxVec, idx, st) ==
  IF idx >= st.startIdx + st.extent THEN st
  ELSE LET u == update(ip, idxVec[idx], pathMask, NullBase, FALSE)
       IN PrepathLoop(ip, pathMask, idxVec, idx + 1,
                      [st EXCEPT !.prepath[idx] = u.path,
                                 !.pathCount = IF u.path # noPath
                                               THEN [@ EXCEPT ![u.path] = @ + 1] ELSE @])

Prepath(ip, pathMask, idxVec, startIdx, extent) ==
  PrepathLoop(ip, pathMask, idxVec, startIdx,
              [startIdx |-> startIdx, extent |-> extent,
               prepath |-> [i \in 0 .. (BufLen - 1) |-> noPath],
               pathCount |-> [q \in 0 .. pathMask |-> 0]])

\* Target offsets of the paths: consecutive ranges from the start of the
\* source range, in path order.
ReachOffsets(startIdx, pathCount) ==
  [q \in DOMAIN pathCount |->
     startIdx + SumOver(pathCount, {o \in DOMAIN pathCount : o < q})]

\* An unwritten target cell.
NoCell == [rank |-> -1, sIdx |-> -1]

\* A rank no cell bears.
NoRank == -1

\* SamplePred::RankRestage
RECURSIVE RankRestageLoop(_, _)
RankRestageLoop(r, idx) ==
  IF idx >= r.startIdx + r.extent THEN r
  ELSE LET path == r.prepath[idx]
       IN IF path # noPath
          THEN LET spNode == r.source[idx]
                   destIdx == r.reachOffset[path]
               IN RankRestageLoop(
                    [r EXCEPT !.rankCount[path] = @ + (IF spNode.rank = r.rankPrev[path] THEN 0 ELSE 1),
                              !.rankPrev[path] = spNode.rank,
                              !.reachOffset[path] = nextOffset(destIdx),
                              !.targ[destIdx] = [rank |-> spNode.rank, sIdx |-> r.idxSource[idx]],
                              !.wrote[destIdx] = @ + 1],
                    idx + 1)
          ELSE RankRestageLoop(r, idx + 1)

\* A restage that passes over the first cell of the range.
RankRestageFromSecond(r) == RankRestageLoop(r, r.startIdx + 1)

RankRestage(r) == RankRestageLoop(r, r.startIdx)

\* Rank-ordered contents of a source buffer.
SourceRanks == {f \in [0 .. (BufLen - 1) -> {0, 1}] : \A i \in 1 .. (BufLen - 1) : f[i - 1] <= f[i]}

\* Sample indices of the buffer's cells: in order, or reversed.
SourceIdx == {[i \in 0 .. (BufLen - 1) |-> i], [i \in 0 .. (BufLen - 1) |-> BufLen - 1 - i]}

\* Paths recorded for the sample indices at the front level.
FrontPaths == {0, 1, 2, maskExtinct}

\* Ranges restaged: the whole buffer or its tail.
SourceRanges == {<<0, BufLen>>, <<1, BufLen - 1>>, <<1, BufLen - 2>>}

InitRestage ==
  /\ \E rk \in SourceRanks, ix \in SourceIdx, pf \in [0 .. (BufLen - 1) -> FrontPaths],
        rg \in SourceRanges, pathMask \in {1, 3} :
       restage = [pc |-> "staged",
                  source |-> [i \in 0 .. (BufLen - 1) |-> [rank |-> rk[i]]],
                  idxSource |-> ix,
                  ip |-> [idxLive |-> BufLen, pathFront |-> pf,
                          relFront |-> [i \in 0 .. (BufLen - 1) |-> i],
                          offFront |-> [i \in 0 .. (BufLen - 1) |-> 0]],
                  pathMask |-> pathMask, startIdx |-> rg[1], extent |-> rg[2]]
  /\ restageOthersIdle

\* Prepath over the range, then the target offsets of the reached paths.
DoPrepath ==
  /\ restage.pc = "staged"
  /\ LET pp == Prepath(restage.ip, restage.pathMask, restage.idxSource, restage.startIdx,
                       restage.extent)
     IN restage' = [pc |-> "prepath", source |-> restage.source,
                    idxSource |-> restage.idxSource, ip |-> restage.ip,
                    pathMask |-> restage.pathMask, startIdx |-> restage.startIdx,
                    extent |-> restage.extent, prepath |-> pp.prepath,
                    pathCount |-> pp.pathCount,
                    reachBase |-> ReachOffsets(restage.startIdx, pp.pathCount),
                    reachOffset |-> ReachOffsets(restage.startIdx, pp.pathCount),
                    targ |-> [i \in 0 .. (BufLen - 1) |-> NoCell],
                    wrote |-> [i \in 0 .. (BufLen - 1) |-> 0],
                    rankPrev |-> [q \in 0 .. restage.pathMask |-> NoRank],
                    rankCount |-> [q \in 0 .. restage.pathMask |-> 0]]
  /\ UNCHANGED restageOthers

DoRankRestage ==
  /\ restage.pc = "prepath"
  /\ restage' = [RankRestage(restage) EXCEPT !.pc = "restaged"]
  /\ UNCHANGED restageOthers

NextRestage ==
  \/ DoPrepath
  \/ DoRankRestage

SpecRestage == InitRestage /\ [][NextRestage]_vars

----------------------------------------------------------------------------
(* Staging of a predictor (SamplePred::Stage, samplepred.cc).              *)

\* A singleton test that recognises only the fully residual predictor.
singletonWhenEmpty(st, stageCount) == stageCount = 0

\* ObsPart::singleRank / SamplePred::SingleRank
singleRank(st, idxStart, extent) ==
  IF extent > 0 THEN st.spn[idxStart].rank = st.spn[extent - 1].rank ELSE FALSE

\* ObsPart::singleton / SamplePred::Singleton
singleton(st, stageCount) ==
  IF st.bagCount = stageCount THEN singleRank(st, 0, st.bagCount) ELSE stageCount = 0

\* SamplePred::Stage for one ranked entry.
StageCell(st, rrNode) ==
  LET sIdx == st.row2Sample[rrNode.row]
  IN IF sIdx < st.bagCount
     THEN [st EXCEPT !.spn[st.expl] = [rank |-> rrNode.rank,
                                       ySum |-> st.sampleNode[sIdx].ySum,
                                       sCount |-> st.sampleNode[sIdx].sCount],
                     !.smpIdx[st.expl] = sIdx,
                     !.expl = @ + 1]
     ELSE st

RECURSIVE StageLoop(_, _)
StageLoop(st, idx) ==
  IF idx >= Len(st.rrPred) THEN st ELSE StageLoop(StageCell(st, st.rrPred[idx + 1]), idx + 1)

\* SamplePred::Stage for one predictor.
Stage(st) ==
  LET s1 == StageLoop([st EXCEPT !.expl = 0], 0)
  IN [s1 EXCEPT !.singleton = singleton(s1, s1.expl), !.pc = "staged"]

\* A buffer cell not staged.
NoStaged == [rank |-> -1, ySum |-> 0, sCount |-> 0]

\* Sample indices of the rows: sampled rows are numbered in row order and
\* unsampled rows map to bagCount.
Row2Sample(n, bag) ==
  [row \in 0 .. (n - 1) |->
     IF row \in bag THEN Cardinality({r \in bag : r < row}) ELSE Cardinality(bag)]

\* The explicit ranked entries of the predictor over the rows expl, in rank
\* order; rk gives the rank of each row.
RankedEntries(explRows, rk) ==
  LET rows == SortedSeq(explRows) IN [k \in 1 .. Len(rows) |-> [row |-> rows[k], rank |-> rk[rows[k]]]]

InitStage ==
  /\ \E n \in 1 .. MaxRow :
       \E bag \in (SUBSET (0 .. (n - 1))) \ {{}}, explRows \in SUBSET (0 .. (n - 1)),
          rk \in [0 .. (n - 1) -> 0 .. 2] :
         /\ \A r \in 1 .. (n - 1) : rk[r - 1] <= rk[r]
         /\ stage = [pc |-> "ranked", nRow |-> n, bagCount |-> Cardinality(bag),
                     row2Sample |-> Row2Sample(n, bag),
                     sampleNode |-> [sIdx \in 0 .. (Cardinality(bag) - 1) |->
                                       [ySum |-> sIdx + 1, sCount |-> 1 + (sIdx % 2)]],
                     rrPred |-> RankedEntries(explRows, rk),
                     spn |-> [i \in 0 .. (n - 1) |-> NoStaged],
                     smpIdx |-> [i \in 0 .. (n - 1) |-> -1],
                     expl |-> 0, singleton |-> FALSE]
  /\ stageOthersIdle

DoStage ==
  /\ stage.pc = "ranked"
  /\ stage' = Stage(stage)
  /\ UNCHANGED stageOthers

NextStage == DoStage

SpecStage == InitStage /\ [][NextStage]_vars

----------------------------------------------------------------------------
(* Run accumulation for a factor candidate (SplitCoord::RunsReg/RunsCtg).  *)

FacKinds == {k \in Kinds : k.fac}

InitRuns ==
  /\ InitCand(FacKinds)
  /\ nux = NoNux /\ pc = "sched"
  /\ runSet = [pc |-> "empty"]
  /\ IdleConsume /\ IdleSample /\ runSetPeersIdle

DoRunsReg ==
  /\ runSet.pc = "empty" /\ cand.resp = "reg"
  /\ runSet' = [pc |-> "runs", op |-> "RunsReg", rs |-> RunsReg(cand)]
  /\ UNCHANGED runSetOthers

DoRunsCtg ==
  /\ runSet.pc = "empty" /\ cand.resp = "ctg"
  /\ runSet' = [pc |-> "runs", op |-> "RunsCtg", rs |-> RunsCtg(cand)]
  /\ UNCHANGED runSetOthers

NextRuns ==
  \/ DoRunsReg
  \/ DoRunsCtg

SpecRuns == InitRuns /\ [][NextRuns]_vars

----------------------------------------------------------------------------
(* Shrinking of wide run sets (RunSet::deWide).                            *)

\* Moduli of the variate generators.
RvModuli == {3, 7, 13}

\* Variates in [0,1) for the slots of a run set (CallBack::rUnif).
RvWide(n, mul, add, m) == [k \in 1 .. n |-> Frac((mul * (k - 1) + add) % m, m)]

\* A multiclass run set of n runs, as RunsCtg leaves it: ranks descending by slot.
WideRuns(n) ==
  [runZero |-> [k \in 1 .. n |->
                  FRNode(n - k, 1 + (k % 2), k, n - k, 1,
                         [g \in Ctgs(WideCtg) |-> IF g = k % WideCtg THEN k ELSE 0])],
   runCount |-> n, hasImplicit |-> FALSE]

InitWide ==
  /\ \E n \in (maxWidth - WideExtra) .. (maxWidth + WideExtra),
        mul \in 1 .. RvMul, add \in 0 .. 1, m \in RvModuli :
       wideSet = [pc |-> "runs", rs |-> WideRuns(n), rvZero |-> RvWide(n, mul, add, m)]
  /\ wideSetOthersIdle

DoDeWide ==
  /\ wideSet.pc = "runs"
  /\ wideSet' = [wideSet EXCEPT !.pc = "dewide"]
                  @@ [out |-> deWideSet(wideSet.rs, wideSet.rvZero, WideCtg)]
  /\ UNCHANGED wideSetOthers

NextWide == DoDeWide

SpecWide == InitWide /\ [][NextWide]_vars

----------------------------------------------------------------------------
(* Replay of the explicit block of a split (SamplePred::BlockReplay).      *)

\* An unsigned int of 32 bits, held as the function of its bits (bit 0 the
\* lowest): the value 2^32 lies beyond the integers of the checker.
wordBits == 32

WordBitsOf == 0 .. (wordBits - 1)

\* The word of a value below 2^31.
Bits(x) == [i \in WordBitsOf |-> IF i = wordBits - 1 THEN 0 ELSE (x \div Pow2(i)) % 2]

\* The value of a word.
WordVal(w) == SumOver([i \in WordBitsOf |-> IF w[i] = 0 THEN 0 ELSE Pow2(i)], WordBitsOf)

\* w << k and w >> k on unsigned int: bits shifted out are lost.
WordShl(w, k) == [i \in WordBitsOf |-> IF i >= k THEN w[i - k] ELSE 0]

WordShr(w, k) == [i \in WordBitsOf |-> IF i + k < wordBits THEN w[i + k] ELSE 0]

\* a | b and a & b
WordOr(a, b) == [i \in WordBitsOf |-> IF a[i] = 1 \/ b[i] = 1 THEN 1 ELSE 0]

WordAnd(a, b) == [i \in WordBitsOf |-> IF a[i] = 1 /\ b[i] = 1 THEN 1 ELSE 0]

PackWordUnshifted(sCount, ctg, ctgShift) == WordOr(Bits(sCount), Bits(ctg))

\* SPNode::Init / SampleRank::Init: sCount = (_sCount << ctgShift) | _ctg.
PackWord(sCount, ctg, ctgShift) == WordOr(WordShl(Bits(sCount), ctgShift), Bits(ctg))

\* The packed field as a value.
PackCtg(sCount, ctg, ctgShift) == WordVal(PackWord(sCount, ctg, ctgShift))

\* SPNode::CtgFields on the packed word: _yCtg = sCount & ((1 << ctgShift) - 1),
\* returns sCount >> ctgShift.
UnpackWord(w, ctgShift) ==
  [yCtg |-> WordAnd(w, Bits(Pow2(ctgShift) - 1)), sCount |-> WordShr(w, ctgShift)]

\* SPNode::RegFields: _sCount = sCount.
RegFields(w) == w

\* SampleRank::CtgFields: unpacks proxy response, category and sample count.
CtgFields(cell, ctgShift) ==
  LET u == UnpackWord(Bits(cell.sCount), ctgShift)
  IN [ySum |-> cell.ySum, yCtg |-> WordVal(u.yCtg), sCount |-> WordVal(u.sCount)]

\* SumCount::Accum: adds a response sum and a sample count to the accumulator.
SumCountAccum(sc, ySum, sCount) == [sum |-> sc.sum + ySum, sCount |-> sc.sCount + sCount]

\* BV::setBit
SetBit(bv, pos) == bv \cup {pos}

RECURSIVE BlockReplayLoop(_, _, _)
BlockReplayLoop(rp, spIdx, st) ==
  IF spIdx >= rp.start + rp.extent THEN st
  ELSE IF Len(st.ctgExpl) > 0
       THEN LET f == CtgFields(Slot(rp.spn, spIdx), rp.ctgShift)
            IN BlockReplayLoop(rp, spIdx + 1,
                 [ctgExpl |-> [st.ctgExpl EXCEPT ![f.yCtg + 1] = SumCountAccum(@, f.ySum, f.sCount)],
                  sumExpl |-> st.sumExpl + f.ySum,
                  replayExpl |-> SetBit(st.replayExpl, Slot(rp.idx, spIdx))])
       ELSE BlockReplayLoop(rp, spIdx + 1,
                 [ctgExpl |-> st.ctgExpl,
                  sumExpl |-> st.sumExpl + Slot(rp.spn, spIdx).ySum,
                  replayExpl |-> SetBit(st.replayExpl, Slot(rp.idx, spIdx))])

\* SamplePred::BlockReplay over [start, start + extent): the returned sum with
\* the caller's bit vector and category accumulators as the call leaves them.
BlockReplay(rp) ==
  BlockReplayLoop(rp, rp.start,
                  [ctgExpl |-> rp.ctgExpl, sumExpl |-> 0, replayExpl |-> rp.replayExpl])

\* SumCount::Init
SumCountInit == [sum |-> 0, sCount |-> 0]

InitReplay ==
  /\ \E n \in 1 .. ReplayLen, ctgShift \in 0 .. 1, rev \in BOOLEAN :
       \E ys \in [1 .. n -> 1 .. 2], cs \in [1 .. n -> 0 .. ctgShift],
          start \in 0 .. (n - 1) :
         \E extent \in 1 .. (n - start) :
           replay = [pc |-> "split", calls |-> 0, ctgShift |-> ctgShift,
                     spn |-> [k \in 1 .. n |->
                                [ySum |-> ys[k], sCount |-> PackCtg(1 + (k % 2), cs[k], ctgShift)]],
                     idx |-> [k \in 1 .. n |-> IF rev THEN n - k ELSE k - 1],
                     start |-> start, extent |-> extent,
                     replayExpl |-> {},
                     ctgExpl |-> IF ctgShift = 0 THEN <<>>
                                 ELSE [g \in 1 .. Pow2(ctgShift) |-> SumCountInit],
                     sumExpl |-> 0]
  /\ replayOthersIdle

\* One invocation by the caller, which keeps the state of the first one.
DoBlockReplay ==
  /\ replay.pc \in {"split", "replayed"}
  /\ replay.calls < MaxCalls
  /\ LET out == BlockReplay(replay)
         rp == [replay EXCEPT !.pc = "replayed", !.calls = @ + 1,
                              !.replayExpl = out.replayExpl, !.ctgExpl = out.ctgExpl,
                              !.sumExpl = out.sumExpl]
     IN replay' = IF replay.calls = 0
                  THEN rp @@ [once |-> [replayExpl |-> out.replayExpl,
                                        ctgExpl |-> out.ctgExpl, sumExpl |-> out.sumExpl]]
                  ELSE rp
  /\ UNCHANGED replayOthers

NextReplay == DoBlockReplay

SpecReplay == InitReplay /\ [][NextReplay]_vars

----------------------------------------------------------------------------
(* One level of splitting: preschedule, schedule, the parallel split of    *)
(* the candidates, the parallel argmax and the clearing of the list        *)
(* (SplitPred, splitpred.cc; Run, runset.cc).                              *)

\* Index sets (nodes) of the level; splitCount is their number.
LevelNodes == {0, 1}

splitCount == Cardinality(LevelNodes)

\* Numeric predictors come first and are their own numeric index.
NumPreds == {0, 1}

FacPreds == {2, 3}

IsFactor(predIdx) == predIdx \in FacPreds

NumIdx(predIdx) == predIdx

\* SplitPred::noSet = bagCount * NPredFac, for a bag of four samples.
noSet == 4 * Cardinality(FacPreds)

\* Response kinds: regression, binary and multiclass classification.
LevelModes == {"reg", "ctg2", "ctg3"}

ctgWidthOf(mode) == IF mode = "reg" THEN 0 ELSE IF mode = "ctg2" THEN 2 ELSE 3

\* Run counts restaging reports for a factor: a narrow and a wide one.
FacCounts == {2, maxWidth + 1}

\* SplitCoord::InitEarly
InitEarly(splitIdx, predIdx, bufIdx) ==
  [splitIdx |-> splitIdx, predIdx |-> predIdx, bufIdx |-> bufIdx,
   vecPos |-> -1, setIdx |-> -1, step |-> 0, acc |-> 0]

\* SplitCoord::InitLate: position in the retained list and run-set index.
InitLateCoord(sg, vecPos, setIdx) == [sg EXCEPT !.vecPos = vecPos, !.setIdx = setIdx]

\* A Schedule that retains every candidate.
ScheduleAll(sg, st) ==
  [runCount |-> IF sg.rCount > 1 THEN Append(st.runCount, sg.rCount) ELSE st.runCount,
   sc2 |-> Append(st.sc2, InitLateCoord(sg, Len(st.sc2),
                                        IF sg.rCount > 1 THEN Len(st.runCount) ELSE noSet))]

\* SplitCoord::Schedule: retains the coordinate iff the front level schedules
\* it, which reports the run count (Level::ScheduleSplit).
Schedule(sg, st) ==
  IF sg.scheduleSplit
  THEN [runCount |-> IF sg.rCount > 1 THEN Append(st.runCount, sg.rCount) ELSE st.runCount,
        sc2 |-> Append(st.sc2, InitLateCoord(sg, Len(st.sc2),
                                             IF sg.rCount > 1 THEN Len(st.runCount) ELSE noSet))]
  ELSE st

RECURSIVE ScheduleLoop(_, _, _)
ScheduleLoop(splitCoord, k, st) ==
  IF k > Len(splitCoord) THEN st
  ELSE ScheduleLoop(splitCoord, k + 1, Schedule(splitCoord[k], st))

\* An offsetCache that bases every run set at zero.
offsetCacheZero(safeCount, runOff, heapOff, outOff) ==
  [safeRunCount |-> safeCount, runOff |-> 0, heapOff |-> 0, outOff |-> 0]

\* RunSet::offsetCache, with the safe count Run::runSets stored.
offsetCache(safeCount, runOff, heapOff, outOff) ==
  [safeRunCount |-> safeCount, runOff |-> runOff, heapOff |-> heapOff, outOff |-> outOff]

\* Run::offsetsReg: all runs employ a heap.
RECURSIVE offsetsRegLoop(_, _, _)
offsetsRegLoop(safeCount, k, st) ==
  IF k > Len(safeCount) THEN st
  ELSE offsetsRegLoop(safeCount, k + 1,
         [runSet |-> Append(st.runSet, offsetCache(safeCount[k], st.runCount, st.runCount,
                                                   st.runCount)),
          runCount |-> st.runCount + safeCount[k],
          heapRuns |-> st.runCount + safeCount[k],
          outRuns |-> st.runCount + safeCount[k]])

offsetsReg(safeCount) ==
  offsetsRegLoop(safeCount, 1, [runSet |-> <<>>, runCount |-> 0, heapRuns |-> 0, outRuns |-> 0])

\* Run::offsetsCtg: only binary and wide run sets use the heap.
RECURSIVE offsetsCtgLoop(_, _, _, _)
offsetsCtgLoop(safeCount, ctgWidth, k, st) ==
  IF k > Len(safeCount) THEN st
  ELSE LET rCount == safeCount[k]
       IN offsetsCtgLoop(safeCount, ctgWidth, k + 1,
            IF ctgWidth = 2
            THEN [runSet |-> Append(st.runSet,
                                    offsetCache(rCount, st.runCount, st.heapRuns, st.outRuns)),
                  runCount |-> st.runCount + rCount,
                  heapRuns |-> st.heapRuns + rCount,
                  outRuns |-> st.outRuns + rCount]
            ELSE IF rCount > maxWidth
            THEN [runSet |-> Append(st.runSet,
                                    offsetCache(rCount, st.runCount, st.heapRuns, st.outRuns)),
                  runCount |-> st.runCount + rCount,
                  heapRuns |-> st.heapRuns + rCount,
                  outRuns |-> st.outRuns + maxWidth]
            ELSE [runSet |-> Append(st.runSet, offsetCache(rCount, st.runCount, 0, st.outRuns)),
                  runCount |-> st.runCount + rCount,
                  heapRuns |-> st.heapRuns,
                  outRuns |-> st.outRuns + rCount])

offsetsCtg(safeCount, ctgWidth) ==
  offsetsCtgLoop(safeCount, ctgWidth, 1,
                 [runSet |-> <<>>, runCount |-> 0, heapRuns |-> 0, outRuns |-> 0])

\* A zero-filled vector of n cells.
Zeroes(n) == [i \in 0 .. (n - 1) |-> 0]

\* Slot of a coordinate's split signature (SplitSig::Write).
SigSlot(splitIdx, predIdx) == predIdx * splitCount + splitIdx

\* Offset of a (node, numeric predictor, category) accumulator (SPCtg::CtgSumAccum).
AccumOff(splitIdx, numIdx, yCtg, nCtg) == numIdx * splitCount * nCtg + splitIdx * nCtg + yCtg

\* The vectors of the level: Run's facRun, bHeap, lhOut and checkerboard as
\* offsetsReg / offsetsCtg size them, SPCtg's accumulators as LevelInitSumR
\* sizes them, and one signature slot per coordinate.
LevelVectors(off, ctgWidth) ==
  [facRun |-> Zeroes(off.runCount),
   bHeap |-> Zeroes(off.runCount),
   lhOut |-> Zeroes(off.runCount),
   board |-> Zeroes(off.runCount * ctgWidth),
   accum |-> Zeroes(Cardinality(NumPreds) * ctgWidth * splitCount),
   sig |-> Zeroes(Cardinality(NumPreds \cup FacPreds) * splitCount)]

\* A read of cell i; cells outside the vector are not read while the regions
\* of the run sets are disjoint.
Rd(vec, i) == IF i \in DOMAIN vec THEN vec[i] ELSE 0

\* Candidate v writes vals[i] to every cell i of a vector in the domain of vals.
WriteAll(st, v, arr, vals) ==
  LET old == st.mem[arr]
  IN [st EXCEPT !.mem[arr] = [i \in DOMAIN old |-> IF i \in DOMAIN vals THEN vals[i] ELSE old[i]],
                !.wr[v] = @ \cup {<<arr, i>> : i \in DOMAIN vals}]

\* Response sum a candidate stages at a slot.
RunVal(c, slot) == (1 + 4 * c.splitIdx + c.predIdx) * 16 + slot

\* The run set workspace of a candidate.
RSet(st, c) == st.runSet[c.setIdx + 1]

\* SplitCoord::RunsReg / RunsCtg: writes the runs and accumulates the checkerboard.
StepRuns(st, v) ==
  LET c == st.splitCoord[v]
      rs == RSet(st, c)
      w == st.ctgWidth
      R == rs.runOff .. (rs.runOff + rs.safeRunCount - 1)
      s1 == WriteAll(st, v, "facRun",
                   [i \in R |-> RunVal(c, i - rs.runOff)])
  IN IF w > 0
     THEN WriteAll(s1, v, "board",
                   [j \in {i * w + ((i - rs.runOff) % w) : i \in R} |->
                      st.mem.board[j] + RunVal(c, (j \div w) - rs.runOff)])
     ELSE s1

\* Keys of the heap: mean response (heapMean), category-1 proportion
\* (heapBinary) or the pre-drawn variates at the heap offset (heapRandom).
HeapKeys(st, c) ==
  LET rs == RSet(st, c)
  IN [k \in 1 .. rs.safeRunCount |->
        IF st.mode = "reg" THEN Frac(Rd(st.mem.facRun, rs.runOff + k - 1), 1 + (k % 2))
        ELSE IF st.mode = "ctg2"
        THEN Frac(Rd(st.mem.board, (rs.runOff + k - 1) * 2 + 1),
                  1 + Rd(st.mem.facRun, rs.runOff + k - 1))
        ELSE Frac((3 * (rs.heapOff + k - 1) + 1) % 7, 7)]

\* heapMean / heapBinary with dePop, or deWide: fills the heap, pops the out
\* slots and, for a wide set, writes the sampled runs and their checkerboard
\* rows over the first maxWidth slots.
StepHeap(st, v) ==
  LET c == st.splitCoord[v]
      rs == RSet(st, c)
      w == st.ctgWidth
      n == rs.safeRunCount
      heap == HeapInsertAll(HeapKeys(st, c), 0, <<>>)
      pop == IF st.mode = "ctg3" THEN maxWidth ELSE n
      out == depopulate(heap, <<>>, pop, pop - 1)
      s1 == WriteAll(st, v, "bHeap",
                   [i \in rs.heapOff .. (rs.heapOff + n - 1) |-> heap[i - rs.heapOff].slot])
      s2 == WriteAll(s1, v, "lhOut",
                   [i \in rs.outOff .. (rs.outOff + pop - 1) |-> out[i - rs.outOff + 1]])
      s3 == WriteAll(s2, v, "facRun",
                   [i \in rs.runOff .. (rs.runOff + maxWidth - 1) |->
                      Rd(st.mem.facRun, rs.runOff + out[i - rs.runOff + 1])])
  IN IF st.mode = "ctg3"
     THEN WriteAll(s3, v, "board",
                   [j \in (rs.runOff * w) .. ((rs.runOff + maxWidth) * w - 1) |->
                      Rd(st.mem.board,
                         (rs.runOff + out[(j \div w) - rs.runOff + 1]) * w + (j % w))])
     ELSE s2

\* HeapSplit / SplitBinary read the runs in out-slot order; SplitRuns reads the
\* effective runs and their checkerboard rows and lHBits records the left slots.
StepSplit(st, v) ==
  LET c == st.splitCoord[v]
      rs == RSet(st, c)
      w == st.ctgWidth
      n == rs.safeRunCount
      eff == IF n > maxWidth THEN maxWidth ELSE n
  IN IF st.mode = "ctg3"
     THEN LET S == 0 .. (eff - 1)
              B == (rs.runOff * w) .. ((rs.runOff + eff) * w - 1)
              acc == SumOver([k \in S |-> (k + 1) * Rd(st.mem.facRun, rs.runOff + k)], S)
                     + SumOver([j \in B |-> Rd(st.mem.board, j)], B)
              s1 == WriteAll(st, v, "lhOut",
                   [i \in rs.outOff .. (rs.outOff + eff - 2) |-> i - rs.outOff])
          IN [s1 EXCEPT !.splitCoord[v].acc = acc]
     ELSE LET S == 0 .. (n - 1)
              acc == SumOver([k \in S |->
                               (k + 1) * Rd(st.mem.facRun,
                                            rs.runOff + Rd(st.mem.lhOut, rs.outOff + k))
                               + (IF w > 0
                                  THEN Rd(st.mem.board,
                                          (rs.runOff + Rd(st.mem.lhOut, rs.outOff + k)) * w + 1)
                                  ELSE 0)], S)
          IN [st EXCEPT !.splitCoord[v].acc = acc]

\* SplitCoord::NumCtgGini: every cell of the node reads and advances the
\* accumulator of its category.
StepGini(st, v) ==
  LET c == st.splitCoord[v]
      w == st.ctgWidth
      S == {AccumOff(c.splitIdx, NumIdx(c.predIdx), g, w) : g \in 0 .. 1}
      s1 == WriteAll(st, v, "accum",
                   [i \in S |-> st.mem.accum[i] + RunVal(c, i % w)])
  IN [s1 EXCEPT !.splitCoord[v].acc = SumOver([i \in S |-> (1 + (i % w)) * st.mem.accum[i]], S)
                                      + RunVal(c, 0)]

\* SplitPred::SSWrite
StepSig(st, v) ==
  LET c == st.splitCoord[v]
      info == IF st.mode = "reg" /\ ~IsFactor(c.predIdx) THEN RunVal(c, 0) ELSE c.acc
  IN WriteAll([st EXCEPT !.splitCoord[v].acc = info], v, "sig",
              [i \in {SigSlot(c.splitIdx, c.predIdx)} |-> info])

\* The steps of SplitCoord::Split for a candidate.
Plan(st, c) ==
  IF IsFactor(c.predIdx)
  THEN IF st.mode = "ctg3" /\ RSet(st, c).safeRunCount <= maxWidth
       THEN <<"runs", "split", "sig">>
       ELSE <<"runs", "heap", "split", "sig">>
  ELSE IF st.mode = "reg" THEN <<"sig">> ELSE <<"gini", "sig">>

Finished(st, v) == st.splitCoord[v].step >= Len(Plan(st, st.splitCoord[v]))

\* The next step of candidate v.
StepCand(st, v) ==
  LET op == Plan(st, st.splitCoord[v])[st.splitCoord[v].step + 1]
      s1 == IF op = "runs" THEN StepRuns(st, v)
            ELSE IF op = "heap" THEN StepHeap(st, v)
            ELSE IF op = "split" THEN StepSplit(st, v)
            ELSE IF op = "gini" THEN StepGini(st, v)
            ELSE StepSig(st, v)
  IN [s1 EXCEPT !.splitCoord[v].step = @ + 1]

\* SplitCoord::Split of candidate v, start to end.
RECURSIVE RunCand(_, _)
RunCand(st, v) == IF Finished(st, v) THEN st ELSE RunCand(StepCand(st, v), v)

\* The split loop executed by one thread, in index order.
RECURSIVE SplitSequential(_, _)
SplitSequential(st, v) ==
  IF v > Len(st.splitCoord) THEN st ELSE SplitSequential(RunCand(st, v), v + 1)

\* SplitPred::ScheduleSplits, with the vectors RunOffsets lays out.
ScheduleSplits(st) ==
  LET s == ScheduleLoop(st.splitCoord, 1, [runCount |-> <<>>, sc2 |-> <<>>])
      off == IF st.mode = "reg" THEN offsetsReg(s.runCount)
             ELSE offsetsCtg(s.runCount, st.ctgWidth)
  IN [st EXCEPT !.pc = "split", !.splitCoord = s.sc2, !.runSet = off.runSet,
                !.mem = LevelVectors(off, st.ctgWidth),
                !.wr = [v \in 1 .. Len(s.sc2) |-> {}]]

\* SSNode::ArgMax of one node: the greatest information among its signatures.
ArgMaxNode(st, splitIdx) ==
  LET S == {st.mem.sig[SigSlot(splitIdx, p)] : p \in NumPreds \cup FacPreds}
  IN CHOOSE x \in S : \A y \in S : y <= x

InitLevel ==
  /\ \E mode \in LevelModes :
       level = [pc |-> "presched", mode |-> mode, ctgWidth |-> ctgWidthOf(mode),
                splitCoord |-> <<>>, runSet |-> <<>>, mem |-> <<>>, wr |-> <<>>,
                presched |-> <<>>, retained |-> {}, rejected |-> {}, scored |-> {},
                mixed |-> FALSE, seq |-> <<>>,
                argMax |-> [n \in {} |-> 0]]
  /\ levelOthersIdle

\* Coordinates are prescheduled node by node, predictors ascending.
CoordLess(a, b) == a[1] < b[1] \/ (a[1] = b[1] /\ a[2] < b[2])

\* SplitPred::Preschedule, with what the front level will report for the
\* coordinate when it is scheduled.
DoPreschedule ==
  /\ level.pc = "presched"
  /\ Len(level.splitCoord) < LevelCands
  /\ \E splitIdx \in LevelNodes, predIdx \in NumPreds \cup FacPreds, scheduleSplit \in BOOLEAN :
       \E rCount \in (IF IsFactor(predIdx) THEN FacCounts ELSE {0}) :
         /\ \A k \in 1 .. Len(level.presched) :
              CoordLess(level.presched[k], <<splitIdx, predIdx>>)
         /\ level' = [level EXCEPT
                        !.splitCoord = Append(@, InitEarly(splitIdx, predIdx, 0)
                                                 @@ [scheduleSplit |-> scheduleSplit,
                                                     rCount |-> rCount]),
                        !.presched = Append(@, <<splitIdx, predIdx>>)]
  /\ UNCHANGED levelOthers

DoScheduleSplits ==
  /\ level.pc = "presched"
  /\ LET s1 == ScheduleSplits(level)
     IN level' = [s1 EXCEPT
                    !.seq = SplitSequential(s1, 1).splitCoord,
                    !.retained = {<<s1.splitCoord[k].splitIdx, s1.splitCoord[k].predIdx>> :
                                    k \in 1 .. Len(s1.splitCoord)},
                    !.rejected = {<<level.splitCoord[k].splitIdx, level.splitCoord[k].predIdx>> :
                                    k \in {j \in 1 .. Len(level.splitCoord) :
                                             ~level.splitCoord[j].scheduleSplit}}]
  /\ UNCHANGED levelOthers

\* One thread advances the split of its candidate.
DoSplitCand ==
  /\ level.pc = "split"
  /\ \E v \in 1 .. Len(level.splitCoord) :
       /\ ~Finished(level, v)
       /\ level' = [StepCand(level, v) EXCEPT
                      !.scored = @ \cup {<<level.splitCoord[v].splitIdx,
                                           level.splitCoord[v].predIdx>>},
                      !.mixed = @ \/ \E u \in 1 .. (v - 1) : ~Finished(level, u)]
  /\ UNCHANGED levelOthers

\* One thread takes the argmax of a node, after the split loop has joined.
DoArgMaxNode ==
  /\ level.pc = "split"
  /\ \A v \in 1 .. Len(level.splitCoord) : Finished(level, v)
  /\ \E splitIdx \in LevelNodes \ DOMAIN level.argMax :
       level' = [level EXCEPT !.argMax = (splitIdx :> ArgMaxNode(level, splitIdx)) @@ @]
  /\ UNCHANGED levelOthers

\* The end of SplitPred::Split: the candidate list is cleared.
DoClear ==
  /\ level.pc = "split"
  /\ DOMAIN level.argMax = LevelNodes
  /\ level' = [level EXCEPT !.pc = "done", !.splitCoord = <<>>]
  /\ UNCHANGED levelOthers

NextLevel ==
  \/ DoPreschedule
  \/ DoScheduleSplits
  \/ DoSplitCand
  \/ DoArgMaxNode
  \/ DoClear

SpecLevel == InitLevel /\ [][NextLevel]_vars

----------------------------------------------------------------------------
(* Scheduling of the child cells of a restaged predictor.                  *)

\* Level::ScheduleSplit for the child cell of a path: a cell is a singleton
\* when its rank count is one, and neither a singleton nor a cell no sample
\* reaches is split again.
ChildSingleton(r, q) == r.rankCount[q] = 1

ChildCoords(r) ==
  [k \in 1 .. (r.pathMask + 1) |->
     InitEarly(k - 1, 0, 1)
       @@ [scheduleSplit |-> r.pathCount[k - 1] > 0 /\ ~ChildSingleton(r, k - 1),
           rCount |-> r.rankCount[k - 1]]]

\* SplitCoord::Schedule over the child cells of the restaged predictor.
DoScheduleChildren ==
  /\ restage.pc = "restaged"
  /\ restage' = [restage EXCEPT !.pc = "scheduled"]
                   @@ [sched |-> ScheduleLoop(ChildCoords(restage), 1,
                                              [runCount |-> <<>>, sc2 |-> <<>>])]
  /\ UNCHANGED restageOthers

NextReschedule ==
  \/ DoPrepath
  \/ DoRankRestage
  \/ DoScheduleChildren

SpecReschedule == InitRestage /\ [][NextReschedule]_vars

----------------------------------------------------------------------------
(* Monotone constraint of a regression candidate (SPReg::MonoMode).        *)

\* SPReg::Immutables: the number of predictors with a nonzero constraint.
predMonoOf(mono) == Cardinality({p \in 1 .. Len(mono) : mono[p].n # 0})

\* monoProb > 0.0 ? 1 : (monoProb < 0.0 ? -1 : 0)
SignOf(monoProb) == IF monoProb.n > 0 THEN 1 ELSE IF monoProb.n < 0 THEN -1 ELSE 0

\* SPReg::MonoMode: the sign of the constraint when sign * ruMono[splitIdx]
\* lies below the signed probability of the predictor, else zero.
MonoMode(predMono, mono, ruMono, splitIdx, predIdx) ==
  IF predMono = 0 THEN 0
  ELSE LET monoProb == Slot(mono, predIdx)
           sign == SignOf(monoProb)
       IN IF FGt(monoProb, FMul(Slot(ruMono, splitIdx), sign)) THEN sign ELSE 0

\* Signed probabilities and variates in [0,1), in units of 1 / MonoDen.
MonoProbs == {Frac(n, MonoDen) : n \in (0 - MonoDen) .. MonoDen}

Variates == {Frac(n, MonoDen) : n \in 0 .. (MonoDen - 1)}

InitMono ==
  /\ \E m0 \in MonoProbs, m1 \in MonoProbs, u0 \in Variates, u1 \in Variates,
        vecPos \in 0 .. 1, predIdx \in 0 .. 1 :
       monoSt = [pc |-> "sched", mono |-> <<m0, m1>>, predMono |-> predMonoOf(<<m0, m1>>),
                 ruMono |-> <<u0, u1>>, vecPos |-> vecPos, predIdx |-> predIdx]
  /\ monoStOthersIdle

\* SplitCoord::SplitNum asks for the mode of its candidate.
DoMonoMode ==
  /\ monoSt.pc = "sched"
  /\ monoSt' = [monoSt EXCEPT !.pc = "mode"]
                 @@ [monoMode |-> MonoMode(monoSt.predMono, monoSt.mono, monoSt.ruMono,
                                           monoSt.vecPos, monoSt.predIdx)]
  /\ UNCHANGED monoStOthers

NextMono == DoMonoMode

SpecMono == InitMono /\ [][NextMono]_vars

----------------------------------------------------------------------------
(* Calls on the path block of a level (IdxPath, path.h).                   *)

\* Indices of the block; idxLive is their number.
PathIdxs == {0, 1}

\* Paths handed to the setters, some beyond the width of the stored byte.
PathArgs == {0, 3, maskExtinct, maskExtinct + 3, Pow2(8) + 2}

\* Node offsets, one beyond the width of the stored offset.
OffArgs == {0, Pow2(16) + 1}

PathMasks == {1, 3}

\* Base offsets of the reached nodes, by path, or none.
ReachBases == {NullBase, [p \in 0 .. 3 |-> 10 * (p + 1)]}

NoResult == [op |-> "none"]

InitPath ==
  /\ idxPath = [pc |-> "front",
                ip |-> [idxLive |-> Cardinality(PathIdxs),
                        pathFront |-> [i \in PathIdxs |-> 0],
                        relFront |-> [i \in PathIdxs |-> i],
                        offFront |-> [i \in PathIdxs |-> 0]],
                last |-> [i \in PathIdxs |-> -1],
                res |-> NoResult]
  /\ idxPathOthersIdle

DoSetLive ==
  /\ idxPath.pc = "front"
  /\ \E idx \in PathIdxs, path \in PathArgs, targIdx \in PathIdxs, ndOff \in OffArgs :
       idxPath' = [idxPath EXCEPT !.ip = setLive(@, idx, path, targIdx, ndOff),
                                  !.last[idx] = path, !.res = NoResult]
  /\ UNCHANGED idxPathOthers

DoSetExtinct ==
  /\ idxPath.pc = "front"
  /\ \E idx \in PathIdxs :
       idxPath' = [idxPath EXCEPT !.ip = setExtinct(@, idx),
                                  !.last[idx] = maskExtinct, !.res = NoResult]
  /\ UNCHANGED idxPathOthers

DoSetSuccessor ==
  /\ idxPath.pc = "front"
  /\ \E idx \in PathIdxs, pathSucc \in PathArgs, doesReach \in BOOLEAN :
       idxPath' = [idxPath EXCEPT !.ip = setSuccessor(@, idx, pathSucc, doesReach),
                                  !.last[idx] = IF doesReach THEN pathSucc ELSE noPath,
                                  !.res = NoResult]
  /\ UNCHANGED idxPathOthers

DoUpdate ==
  /\ idxPath.pc = "front"
  /\ \E idx \in PathIdxs, pathMask \in PathMasks, reachBase \in ReachBases,
        idxUpdate \in BOOLEAN :
       idxPath' = [idxPath EXCEPT
                     !.res = [op |-> "update", idx |-> idx, pathMask |-> pathMask,
                              reachBase |-> reachBase, idxUpdate |-> idxUpdate,
                              out |-> update(idxPath.ip, idx, pathMask, reachBase, idxUpdate)]]
  /\ UNCHANGED idxPathOthers

DoPathNext ==
  /\ idxPath.pc = "front"
  /\ \E pathPrev \in PathArgs \cup {maskLive}, isLeft \in BOOLEAN :
       idxPath' = [idxPath EXCEPT
                     !.res = [op |-> "pathNext", pathPrev |-> pathPrev, isLeft |-> isLeft,
                              out |-> pathNext(pathPrev, isLeft)]]
  /\ UNCHANGED idxPathOthers

NextPath ==
  \/ DoSetLive
  \/ DoSetExtinct
  \/ DoSetSuccessor
  \/ DoUpdate
  \/ DoPathNext

SpecPath == InitPath /\ [][NextPath]_vars

----------------------------------------------------------------------------
(* Training of a chunk of trees in blocks (Train, train.cc).               *)

Min(a, b) == IF a <= b THEN a ELSE b

\* Train::blockProduce: tree indices treeStart .. treeEnd-1, in order.
blockProduce(treeStart, treeEnd) ==
  [i \in 1..(IF treeEnd > treeStart THEN treeEnd - treeStart ELSE 0) |-> treeStart + i - 1]

\* The static Train::trainBlock before any initBlock.
trainBlockZero == 0

InitTrain ==
  /\ trainSt = [pc |-> "static", trainBlock |-> trainBlockZero]
  /\ trainStOthersIdle

\* Train::initBlock.
DoInitBlock ==
  /\ trainSt.pc = "static"
  /\ \E b \in TrainBlocks : trainSt' = [trainSt EXCEPT !.trainBlock = b]
  /\ UNCHANGED trainStOthers

\* Train::deInit, before training or after it has returned.
DoDeInit ==
  /\ trainSt.pc \in {"static", "done"}
  /\ trainSt' = [pc |-> "static", trainBlock |-> 0]
  /\ UNCHANGED trainStOthers

\* Entry of Train::trainChunk: the loop variable is initialised.
DoTrainChunk ==
  /\ trainSt.pc = "static"
  /\ \E n \in 0..MaxTrees :
       trainSt' = [pc |-> "loop", trainBlock |-> trainSt.trainBlock, treeChunk |-> n,
                   treeStart |-> 0, block |-> <<>>, consumed |-> <<>>]
  /\ UNCHANGED trainStOthers

\* Loop test passed: blockProduce of the next block.
DoBlockProduce ==
  /\ trainSt.pc = "loop"
  /\ trainSt.treeStart < trainSt.treeChunk
  /\ trainSt' = [trainSt EXCEPT
       !.pc = "consume",
       !.block = blockProduce(trainSt.treeStart,
                              Min(trainSt.treeStart + trainSt.trainBlock,
                                  trainSt.treeChunk))]
  /\ UNCHANGED trainStOthers

\* blockConsume of the block just produced, then the loop increment (the
\* unsigned sum stays far below 2^32 for the tree counts of the model).
DoBlockConsume ==
  /\ trainSt.pc = "consume"
  /\ trainSt' = [trainSt EXCEPT
       !.pc = "loop",
       !.consumed = trainSt.consumed \o trainSt.block,
       !.block = <<>>,
       !.treeStart = trainSt.treeStart + trainSt.trainBlock]
  /\ UNCHANGED trainStOthers

\* Loop test failed: trainChunk returns.
DoTrainReturn ==
  /\ trainSt.pc = "loop"
  /\ ~(trainSt.treeStart < trainSt.treeChunk)
  /\ trainSt' = [trainSt EXCEPT !.pc = "done"]
  /\ UNCHANGED trainStOthers

TrainStep == DoBlockProduce \/ DoBlockConsume \/ DoTrainReturn

NextTrain == DoInitBlock \/ DoDeInit \/ DoTrainChunk \/ DoBlockProduce \/ DoBlockConsume \/ DoTrainReturn

\* trainChunk runs to completion unless its loop itself does not end:
\* a step of the loop that is possible is eventually taken.
SpecTrain == InitTrain /\ [][NextTrain]_vars /\ WF_vars(TrainStep)

----------------------------------------------------------------------------
(* Heap ordering of the runs of a set (BHeap; RunSet::heapMean/heapBinary). *)

\* Runs of a two-category or regression set: response sum, sample count,
\* and the sum of category 1.  Several runs share a mean or a proportion.
HeapRuns ==
  { [sum |-> 1, sCount |-> 1, ctgSum |-> (0 :> 1 @@ 1 :> 0)],
    [sum |-> 1, sCount |-> 2, ctgSum |-> (0 :> 0 @@ 1 :> 1)],
    [sum |-> 2, sCount |-> 1, ctgSum |-> (0 :> 1 @@ 1 :> 1)],
    [sum |-> 2, sCount |-> 2, ctgSum |-> (0 :> 0 @@ 1 :> 2)],
    [sum |-> 3, sCount |-> 3, ctgSum |-> (0 :> 3 @@ 1 :> 0)] }

HeapSeqs == UNION { [1..n -> HeapRuns] : n \in 1..MaxHeap }

InitHeap ==
  /\ \E rz \in HeapSeqs :
       heapSt = [pc |-> "runs", rs |-> [runCount |-> Len(rz), runZero |-> rz]]
  /\ heapStOthersIdle

\* RunSet::heapMean, then BHeap::depopulate of every slot.
DoHeapMean ==
  /\ heapSt.pc = "runs"
  /\ heapSt' = [heapSt EXCEPT !.pc = "out"] @@ [by |-> "mean", lhOut |-> heapMean(heapSt.rs)]
  /\ UNCHANGED heapStOthers

\* RunSet::heapBinary, then BHeap::depopulate of every slot.
DoHeapBinary ==
  /\ heapSt.pc = "runs"
  /\ heapSt' = [heapSt EXCEPT !.pc = "out"] @@ [by |-> "binary", lhOut |-> heapBinary(heapSt.rs)]
  /\ UNCHANGED heapStOthers

NextHeap == DoHeapMean \/ DoHeapBinary

SpecHeap == InitHeap /\ [][NextHeap]_vars

----------------------------------------------------------------------------
(* Positions visited by the cut scans (CutAccumRegCart / CutAccumCtgCart,  *)
(* cutaccumcart.cc).  A layout is the tied flags of the explicit cells     *)
(* obsStart .. obsTop and the position cutResidual of the implicit block;  *)
(* a scan yields the calls it makes on argmaxRL, argmaxRLResidual and the  *)
(* four-argument argmaxRL, with their index arguments.                     *)

obsStart == 0

\* CutAccumRegCart::splitRL with monoMode 0: obsThis is the cell at idx + 1.
RECURSIVE regSplitRL(_, _, _, _, _)
regSplitRL(tied, idx, idxFinal, rkIdx, calls) ==
  IF idx < idxFinal THEN [rkIdx |-> rkIdx, calls |-> calls]
  ELSE IF ~tied[idx + 1]
       THEN regSplitRL(tied, idx - 1, idxFinal, rkIdx + 1, Append(calls, <<"RL", idx, rkIdx>>))
       ELSE regSplitRL(tied, idx - 1, idxFinal, rkIdx, calls)

\* CutAccumCtgCart::splitRL
RECURSIVE ctgSplitRL(_, _, _, _, _)
ctgSplitRL(tied, idx, idxFinal, rkIdx, calls) ==
  IF idx < idxFinal THEN [rkIdx |-> rkIdx, calls |-> calls]
  ELSE IF ~tied[idx + 1]
       THEN ctgSplitRL(tied, idx - 1, idxFinal, rkIdx + 1, Append(calls, <<"RL", idx, rkIdx>>))
       ELSE ctgSplitRL(tied, idx - 1, idxFinal, rkIdx, calls)

\* CutAccumRegCart::splitResidual with monoMode 0.
regSplitResidual(rkIdx, calls) == Append(calls, <<"Residual", rkIdx>>)

\* CutAccumCtgCart::splitResidual
ctgSplitResidual(rkIdx, calls) == Append(calls, <<"Residual", rkIdx>>)

\* The residual observation of Obs::residualReg is not tied.
residualTied == FALSE

\* CutAccumRegCart::residualLR with monoMode 0: obsThis is first the
\* residual, then the cell at idx + 1.
RECURSIVE regResidualLR(_, _, _, _, _, _)
regResidualLR(tied, idx, obsTied, rkIdxR, rkIdxL, calls) ==
  IF idx < obsStart THEN calls
  ELSE IF ~obsTied
       THEN regResidualLR(tied, idx - 1, tied[idx], rkIdxL, rkIdxL + 1,
                          Append(calls, <<"LR", idx, rkIdxR, rkIdxL>>))
       ELSE regResidualLR(tied, idx - 1, tied[idx], rkIdxR, rkIdxL, calls)

\* CutAccumCtgCart::residualLR: obsThis is first the untied dummy.
RECURSIVE ctgResidualLR(_, _, _, _, _, _)
ctgResidualLR(tied, idx, obsTied, rkIdxR, rkIdxL, calls) ==
  IF idx < obsStart THEN calls
  ELSE IF ~obsTied
       THEN ctgResidualLR(tied, idx - 1, tied[idx], rkIdxL, rkIdxL + 1,
                          Append(calls, <<"LR", idx, rkIdxR, rkIdxL>>))
       ELSE ctgResidualLR(tied, idx - 1, tied[idx], rkIdxR, rkIdxL, calls)

\* CutAccumRegCart::splitImpl: the rank index returned by splitRL is
\* carried into residualLR.
regSplitImpl(tied, obsTop, cutResidual) ==
  LET rl == IF cutResidual <= obsTop
            THEN regSplitRL(tied, obsTop - 1, cutResidual, 1, <<>>)
            ELSE [rkIdx |-> 0, calls |-> <<>>]
      rkIdx == rl.rkIdx
      calls == IF cutResidual <= obsTop THEN regSplitResidual(rl.rkIdx, rl.calls) ELSE <<>>
  IN IF cutResidual > obsStart
     THEN regResidualLR(tied, cutResidual - 1, residualTied, 0, rkIdx + 1, calls)
     ELSE calls

\* CutAccumCtgCart::splitImpl: the rank index returned by splitRL
\* initialises a variable of the inner block, and the outer rkIdx that
\* reaches residualLR is still zero.
ctgSplitImpl(tied, obsTop, cutResidual) ==
  LET rkIdx == 0
      calls == IF cutResidual <= obsTop
               THEN LET rl == ctgSplitRL(tied, obsTop - 1, cutResidual, 1, <<>>)
                    IN ctgSplitResidual(rl.rkIdx, rl.calls)
               ELSE <<>>
  IN IF cutResidual > obsStart
     THEN ctgResidualLR(tied, cutResidual - 1, FALSE, 0, rkIdx + 1, calls)
     ELSE calls

\* Layouts: one to MaxScan explicit cells, the leftmost never tied, and the
\* implicit block at any position from left of all cells to right of all.
ScanLayouts ==
  UNION { { [obsTop |-> n - 1, tied |-> t, cutResidual |-> r] :
              t \in {f \in [0..(n - 1) -> BOOLEAN] : ~f[0]}, r \in 0..n } :
          n \in 1..MaxScan }

InitScan ==
  /\ \E lay \in ScanLayouts : scanSt = [pc |-> "layout", lay |-> lay, done |-> {}]
  /\ scanStOthersIdle

\* CutAccumRegCart::splitReg on a candidate with an implicit block.
DoScanReg ==
  /\ scanSt.pc = "layout" /\ "reg" \notin scanSt.done
  /\ scanSt' = [scanSt EXCEPT !.done = @ \cup {"reg"}]
                 @@ [reg |-> regSplitImpl(scanSt.lay.tied, scanSt.lay.obsTop,
                                          scanSt.lay.cutResidual)]
  /\ UNCHANGED scanStOthers

\* CutAccumCtgCart::splitCtg on a candidate with an implicit block.
DoScanCtg ==
  /\ scanSt.pc = "layout" /\ "ctg" \notin scanSt.done
  /\ scanSt' = [scanSt EXCEPT !.done = @ \cup {"ctg"}]
                 @@ [ctg |-> ctgSplitImpl(scanSt.lay.tied, scanSt.lay.obsTop,
                                          scanSt.lay.cutResidual)]
  /\ UNCHANGED scanStOthers

NextScan == DoScanReg \/ DoScanCtg

SpecScan == InitScan /\ [][NextScan]_vars

----------------------------------------------------------------------------
(* Replay of a winning factor split (Run::replay, runset.cc).              *)

\* An out slot the split did not write still holds the zero the out
\* vector was allocated with.
OutAt(outZero, outSlot) == IF outSlot < Len(outZero) THEN Slot(outZero, outSlot) ELSE 0

\* RunSet::getRank
getRank(rs, outZero, outSlot) == Slot(rs.runZero, OutAt(outZero, outSlot)).rank

\* RunSet::bounds, with the out slot and the slot it dereferences.
bounds(rs, outZero, outSlot) ==
  LET slot == OutAt(outZero, outSlot)
  IN [outSlot |-> outSlot, slot |-> slot, start |-> Slot(rs.runZero, slot).start,
      extent |-> Slot(rs.runZero, slot).extent]

\* Run::replay: the left bits set in the pretree and the blockReplay calls
\* made, in order.
RunReplay(rs, outZero, runsLH) ==
  IF implicitLeft(rs, outZero, runsLH)
  THEN [ret |-> FALSE,
        bits |-> {getRank(rs, outZero, o) : o \in 0 .. (runsLH - 1)},
        blocks |-> [k \in 1 .. (rs.runCount - runsLH) |-> bounds(rs, outZero, runsLH + k - 1)]]
  ELSE [ret |-> TRUE,
        bits |-> {getRank(rs, outZero, o) : o \in 0 .. (runsLH - 1)},
        blocks |-> [k \in 1 .. runsLH |-> bounds(rs, outZero, k - 1)]]

\* A multiclass run set of n runs whose last run, as RunsCtg writes it, is
\* the implicit one.
WideRunsImplicit(n) ==
  LET w == WideRuns(n)
  IN [w EXCEPT !.runZero[n].start = noStart, !.hasImplicit = TRUE]

WideCounts == {maxWidth, maxWidth + 1, maxWidth + 2}

\* Winning subsets of the first nine slots of a shrunken set: the argmax of
\* SplitRuns is whichever nonempty subset the category sums favour.
WideBits == {1, 6, 170, 256, 341, 511}

InitFacReplay ==
  \/ /\ InitCand(FacKinds)
     /\ nux = NoNux /\ pc = "sched"
     /\ facRep = [pc |-> "cand"]
     /\ IdleConsume /\ IdleSample /\ facRepPeersIdle
  \/ /\ \E n \in WideCounts, imp \in BOOLEAN, mul \in {1, 3}, m \in {7, 13} :
          facRep = [pc |-> "wide",
                    rs |-> IF imp THEN WideRunsImplicit(n) ELSE WideRuns(n),
                    rvZero |-> RvWide(n, mul, 0, m)]
     /\ facRepOthersIdle

\* SplitCoord::SplitFac on the candidate; a split that is found leaves its
\* out slots and left-hand count in the run set.
DoFacSplit ==
  /\ facRep.pc = "cand"
  /\ LET nx == IF cand.resp = "reg" THEN SplitFacReg(cand) ELSE SplitFacCtg(cand)
     IN facRep' = IF nx.split
                  THEN [pc |-> "won", op |-> nx.op,
                        rs |-> [runZero |-> nx.runZero, runCount |-> Len(nx.runZero),
                                hasImplicit |-> cand.implicit > 0],
                        outZero |-> nx.outZero, runsLH |-> nx.runsLH]
                  ELSE [pc |-> "nosplit"]
  /\ UNCHANGED facRepOthers

\* SplitCoord::SplitRuns on a wide set: deWide, then lHBits of the winner.
DoWideSplit ==
  /\ facRep.pc = "wide"
  /\ \E lhBits \in WideBits :
       LET dw == deWideSet(facRep.rs, facRep.rvZero, WideCtg)
           rs == [facRep.rs EXCEPT !.runZero = dw.runZero]
           lh == lHBits(rs, lhBits)
       IN facRep' = [pc |-> "won", op |-> "SplitRuns", rs |-> rs,
                     outZero |-> lh.outZero, runsLH |-> lh.runsLH]
  /\ UNCHANGED facRepOthers

DoRunReplay ==
  /\ facRep.pc = "won"
  /\ facRep' = [facRep EXCEPT !.pc = "replayed"]
                 @@ [out |-> RunReplay(facRep.rs, facRep.outZero, facRep.runsLH)]
  /\ UNCHANGED facRepOthers

NextFacReplay == DoFacSplit \/ DoWideSplit \/ DoRunReplay

SpecFacReplay == InitFacReplay /\ [][NextFacReplay]_vars

----------------------------------------------------------------------------
(* The double buffer of staged cells (SamplePred, samplepred.h /            *)
(* samplepred.cc; ObsPart, obspart.h).  nodeVec and indexBase are flat     *)
(* vectors of 2 * bufferSize positions; predictor p is staged at           *)
(* stageOffset[p] within either half.                                      *)

BufPreds == {0, 1}

bufferSize == Cardinality(BufPreds) * PredLen

stageOffset == [p \in BufPreds |-> p * PredLen]

\* A buffer offset that does not depend on the bit.
BuffOffsetLow(bufferBit) == 0

\* SamplePred::BuffOffset
BuffOffset(bufferBit) == IF BitAnd(bufferBit, 1) = 0 THEN 0 ELSE bufferSize

\* SamplePred::BufferOff
BufferOff(predIdx, bufBit) == stageOffset[predIdx] + BuffOffset(bufBit)

\* SamplePred::Buffers: offsets of the source and of the target buffer.
Buffers(predIdx, bufBit) ==
  [source |-> BufferOff(predIdx, bufBit), targ |-> BufferOff(predIdx, 1 - bufBit)]

\* SamplePred::IndexBuffers
IndexBuffers(predIdx, bufBit) ==
  [source |-> BufferOff(predIdx, bufBit), targ |-> BufferOff(predIdx, 1 - bufBit)]

\* Hits of each path among the source positions of the range.
BufPathCount(mem, off, startIdx, extent, pathOf) ==
  [q \in {0, 1} |->
     Cardinality({idx \in startIdx .. (startIdx + extent - 1) :
                    pathOf[mem.indexBase[off + idx]] = q})]

\* SamplePred::RankRestage on the flat vectors; m.wrNode and m.wrIdx collect
\* the positions written.
RECURSIVE BufRankRestage(_, _, _, _, _, _, _)
BufRankRestage(m, b, idx, startIdx, extent, pathOf, reachOffset) ==
  IF idx >= startIdx + extent THEN m
  ELSE LET path == pathOf[m.src.indexBase[b.source + idx]]
       IN IF path # noPath
          THEN LET destIdx == reachOffset[path]
               IN BufRankRestage(
                    [m EXCEPT !.nodeVec[b.targ + destIdx] = m.src.nodeVec[b.source + idx],
                              !.indexBase[b.targ + destIdx] = m.src.indexBase[b.source + idx],
                              !.wrNode = @ \cup {b.targ + destIdx},
                              !.wrIdx = @ \cup {b.targ + destIdx}],
                    b, idx + 1, startIdx, extent, pathOf,
                    [reachOffset EXCEPT ![path] = nextOffset(destIdx)])
          ELSE BufRankRestage(m, b, idx + 1, startIdx, extent, pathOf, reachOffset)

\* SamplePred::IndexRestage on the flat vectors: only sample indices move.
RECURSIVE BufIndexRestage(_, _, _, _, _, _, _)
BufIndexRestage(m, b, idx, startIdx, extent, pathOf, reachOffset) ==
  IF idx >= startIdx + extent THEN m
  ELSE LET sIdx == m.src.indexBase[b.source + idx]
           path == pathOf[sIdx]
       IN IF path # noPath
          THEN LET targOff == reachOffset[path]
               IN BufIndexRestage(
                    [m EXCEPT !.indexBase[b.targ + targOff] = sIdx,
                              !.wrIdx = @ \cup {b.targ + targOff}],
                    b, idx + 1, startIdx, extent, pathOf,
                    [reachOffset EXCEPT ![path] = nextOffset(targOff)])
          ELSE BufIndexRestage(m, b, idx + 1, startIdx, extent, pathOf, reachOffset)

\* Both halves hold, for each predictor, the samples 0 .. PredLen-1: one
\* half as staged, the other as an earlier level left them.
BufInitNode == [pos \in 0 .. (2 * bufferSize - 1) |-> [rank |-> pos % PredLen]]

BufInitIndex ==
  [pos \in 0 .. (2 * bufferSize - 1) |->
     IF (pos \div PredLen) % 2 = 0 THEN pos % PredLen ELSE PredLen - 1 - (pos % PredLen)]

\* Restages of a tree that the model follows.
BufOpCounts == {0, 1}

NoRestage == [predIdx |-> -1]

InitBuf ==
  /\ bufSt = [pc |-> "level", nodeVec |-> BufInitNode, indexBase |-> BufInitIndex,
              cur |-> [p \in BufPreds |-> 0], ops |-> 0, last |-> NoRestage]
  /\ bufStOthersIdle

\* Ranges restaged within a predictor's region.
BufRanges == {rg \in (0 .. (PredLen - 1)) \X (1 .. PredLen) : rg[1] + rg[2] <= PredLen}

BufRestaged(kind, predIdx, startIdx, extent, pathOf) ==
  LET bufIdx == bufSt.cur[predIdx]
      b == IF kind = "rank" THEN Buffers(predIdx, bufIdx) ELSE IndexBuffers(predIdx, bufIdx)
      src == [nodeVec |-> bufSt.nodeVec, indexBase |-> bufSt.indexBase]
      m0 == [nodeVec |-> bufSt.nodeVec, indexBase |-> bufSt.indexBase, src |-> src,
             wrNode |-> {}, wrIdx |-> {}]
      reach == ReachOffsets(startIdx, BufPathCount(src, b.source, startIdx, extent, pathOf))
      m == IF kind = "rank"
           THEN BufRankRestage(m0, b, startIdx, startIdx, extent, pathOf, reach)
           ELSE BufIndexRestage(m0, b, startIdx, startIdx, extent, pathOf, reach)
  IN [pc |-> "level", nodeVec |-> m.nodeVec, indexBase |-> m.indexBase,
      cur |-> [bufSt.cur EXCEPT ![predIdx] = 1 - bufIdx],
      ops |-> bufSt.ops + 1,
      last |-> [predIdx |-> predIdx, bufIdx |-> bufIdx, kind |-> kind,
                wrNode |-> m.wrNode, wrIdx |-> m.wrIdx, prev |-> src,
                prevSource |-> IF bufSt.last.predIdx = predIdx THEN bufSt.last.bufIdx ELSE -1]]

\* A rank restage of one predictor from the buffer that holds its cells.
DoBufRankRestage ==
  /\ bufSt.pc = "level" /\ bufSt.ops \in BufOpCounts
  /\ \E predIdx \in BufPreds, rg \in BufRanges, pathOf \in [0 .. (PredLen - 1) -> {0, 1, noPath}] :
       bufSt' = BufRestaged("rank", predIdx, rg[1], rg[2], pathOf)
  /\ UNCHANGED bufStOthers

\* An index restage of one predictor from the buffer that holds its cells.
DoBufIndexRestage ==
  /\ bufSt.pc = "level" /\ bufSt.ops \in BufOpCounts
  /\ \E predIdx \in BufPreds, rg \in BufRanges, pathOf \in [0 .. (PredLen - 1) -> {0, 1, noPath}] :
       bufSt' = BufRestaged("index", predIdx, rg[1], rg[2], pathOf)
  /\ UNCHANGED bufStOthers

NextBuf == DoBufRankRestage \/ DoBufIndexRestage

SpecBuf == InitBuf /\ [][NextBuf]_vars

----------------------------------------------------------------------------
(* Sample records of the trees of a chunk (Sampler::rootSample / bagRows,  *)
(* sampler.cc).                                                            *)

\* Sampler::countSamples: the per-row counts it may return for the draws;
\* more than one when binIndices leaves its table.
countSamples(rv, rows) ==
  LET zero == [r \in 0 .. (rows - 1) |-> 0]
  IN IF binIdx(rows) > 0
     THEN LET r == binIndices(rv)
          IN IF r.fault THEN {CountLoop(c, 1, zero) : c \in Corrupted(rv, rows)}
             ELSE {CountLoop(r.idxBinned, 1, zero)}
     ELSE {CountLoop(rv, 1, zero)}

\* The loop of Sampler::rootSample: one record per row of positive count,
\* its delRow the distance from the previous such row.
RECURSIVE rootSampleLoop(_, _, _, _)
rootSampleLoop(sc, row, rowPrev, sbCresc) ==
  IF row \notin DOMAIN sc THEN sbCresc
  ELSE IF sc[row] > 0
       THEN rootSampleLoop(sc, row + 1, row,
                           Append(sbCresc, [delRow |-> row - rowPrev, sCount |-> sc[row]]))
       ELSE rootSampleLoop(sc, row + 1, rowPrev, sbCresc)

\* The loop of Sampler::bagRows over the records of one tree: the rows
\* whose bit is set.
RECURSIVE bagRowsLoop(_, _, _, _)
bagRowsLoop(samples, sIdx, row, bits) ==
  IF sIdx > Len(samples) THEN bits
  ELSE LET next == row + samples[sIdx].delRow
       IN bagRowsLoop(samples, sIdx + 1, next, bits \cup {next})

\* Rows and draws of the chunks modelled.
RootObs == {3}

RootSamps == {1, 3}

RootTrees == {1, 2}

InitRoot ==
  /\ \E nObs \in RootObs, nSamp \in RootSamps, nTree \in RootTrees :
       rootSt = [pc |-> "sampling", nObs |-> nObs, nSamp |-> nSamp, nTree |-> nTree,
                 sbCresc |-> <<>>, drawn |-> <<>>, height |-> <<>>]
  /\ rootStOthersIdle

\* Sampler::rootSample of the next tree; its records are those appended by
\* the call.
DoRootSample ==
  /\ rootSt.pc = "sampling" /\ Len(rootSt.drawn) < rootSt.nTree
  /\ \E rv \in [1 .. rootSt.nSamp -> 0 .. (rootSt.nObs - 1)] :
       \E sc \in countSamples(rv, rootSt.nObs) :
         LET cresc == rootSampleLoop(sc, 0, 0, rootSt.sbCresc)
         IN rootSt' = [rootSt EXCEPT !.sbCresc = cresc,
                                     !.drawn = Append(@, rv),
                                     !.height = Append(@, Len(cresc))]
  /\ UNCHANGED rootStOthers

\* Records of tree tIdx (from one): the block between the heights.
TreeSamples(st, tIdx) ==
  SubSeq(st.sbCresc, (IF tIdx = 1 THEN 0 ELSE st.height[tIdx - 1]) + 1, st.height[tIdx])

\* Sampler::bagRows over the trees of the chunk.
DoBagRows ==
  /\ rootSt.pc = "sampling" /\ Len(rootSt.drawn) = rootSt.nTree
  /\ rootSt' = [rootSt EXCEPT !.pc = "bagged"]
                 @@ [bagMatrix |-> [t \in 1 .. rootSt.nTree |->
                                      bagRowsLoop(TreeSamples(rootSt, t), 1, 0, {})]]
  /\ UNCHANGED rootStOthers

NextRoot == DoRootSample \/ DoBagRows

SpecRoot == InitRoot /\ [][NextRoot]_vars

-----------------------------------------------------------------------------
(* Prestaging of the sample of one tree (Sample::PreStage, sample.cc).      *)

\* BV::slotElts: a slot is an unsigned int of 32 bits.  A slot is modelled
\* by the set of its bit positions that are set.
slotElts == 32

PreRowCounts == {3, 34}
PreSampCounts == {1, 2}
PreScales == {1, 2}

\* BV::testBit
testBit(raw, pos) ==
  LET slot == pos \div slotElts
  IN (pos - slot * slotElts) \in raw[slot]

\* SampleReg::SetNode / SampleCtg::SetNode: the record of one sample holds
\* the response of the row summed over its sample count; returns that sum.
SetNode(yVal, sCount) == [ySum |-> yVal * sCount, sCount |-> sCount]

SampleCtorZero(nRw, nSmp) == [row \in 0 .. (nRw - 1) |-> 0]

\* Sample::Sample: row2Sample of every row is set to the static nSamp.
SampleCtor(nRw, nSmp) == [row \in 0 .. (nRw - 1) |-> nSmp]

\* Inner loop of Sample::PreStage over the rows base .. supRow - 1 of one
\* slot; maskPos is the position of the single bit of 'mask'.
RECURSIVE PreStageRows(_, _, _, _, _)
PreStageRows(st, row, supRow, maskPos, bits) ==
  IF row >= supRow THEN [st EXCEPT !.bits = bits]
  ELSE IF st.sCountRow[row] > 0
       THEN PreStageRows([st EXCEPT !.row2Sample[row] = st.sIdx,
                                    !.sIdx = @ + 1,
                                    !.sampleNode = Append(@, SetNode(st.y[row], st.sCountRow[row])),
                                    !.bagSum = @ + SetNode(st.y[row], st.sCountRow[row]).ySum],
                         row + 1, supRow, maskPos + 1, bits \cup {maskPos})
       ELSE PreStageRows(st, row + 1, supRow, maskPos + 1, bits)

\* Outer loop of Sample::PreStage over the slots of the tree bag.
RECURSIVE PreStageSlots(_, _, _)
PreStageSlots(st, base, slot) ==
  IF base >= st.nRow THEN st
  ELSE LET supRow == IF st.nRow < base + slotElts THEN st.nRow ELSE base + slotElts
           s1 == PreStageRows(st, base, supRow, 0, {})
       IN PreStageSlots([s1 EXCEPT !.treeBag[slot] = s1.bits], base + slotElts, slot + 1)

\* Sample::RowInvert
RECURSIVE RowInvertLoop(_, _, _)
RowInvertLoop(st, row, sample2Row) ==
  IF row >= st.nRow THEN sample2Row
  ELSE LET sIdx == st.row2Sample[row]
       IN RowInvertLoop(st, row + 1,
                        IF sIdx < st.nSamp THEN [sample2Row EXCEPT ![sIdx] = row]
                        ELSE sample2Row)

RowInvert(st) == RowInvertLoop(st, 0, [s \in 0 .. (st.bagCount - 1) |-> 0])

\* Sample::PreStage
PreStage(st) ==
  LET rs == RowSample(st.rvRow, st.nRow)
      s0 == [nRow |-> st.nRow, nSamp |-> st.nSamp, rvRow |-> st.rvRow, y |-> st.y,
             row2Sample |-> st.row2Sample,
             sCountRow |-> rs.sCountRow, bagCount |-> rs.bagCount,
             sampleNode |-> <<>>, bagSum |-> 0, sIdx |-> 0, bits |-> {},
             treeBag |-> [slot \in 0 .. ((st.nRow + slotElts - 1) \div slotElts - 1) |-> {}]]
      s1 == PreStageSlots(s0, 0, 0)
  IN [pc |-> "prestaged", nRow |-> s1.nRow, nSamp |-> s1.nSamp, rvRow |-> s1.rvRow,
      y |-> s1.y, row2Sample |-> s1.row2Sample, sCountRow |-> s1.sCountRow,
      bagCount |-> s1.bagCount, sampleNode |-> s1.sampleNode, bagSum |-> s1.bagSum,
      treeBag |-> s1.treeBag, sample2Row |-> RowInvert(s1)]

\* Sample::Immutables has set the static nSamp; the rows drawn for the tree
\* and the response are inputs.
InitPreStage ==
  /\ \E nRw \in PreRowCounts, nSmp \in PreSampCounts, scale \in PreScales :
       \E rv \in [1 .. nSmp -> 0 .. (nRw - 1)] :
          preSt = [pc |-> "immutables", nRow |-> nRw, nSamp |-> nSmp, rvRow |-> rv,
                   y |-> [row \in 0 .. (nRw - 1) |-> scale * (row + 1)]]
  /\ preStOthersIdle

DoSampleCtor ==
  /\ preSt.pc = "immutables"
  /\ preSt' = [pc |-> "constructed", nRow |-> preSt.nRow, nSamp |-> preSt.nSamp,
               rvRow |-> preSt.rvRow, y |-> preSt.y,
               row2Sample |-> SampleCtor(preSt.nRow, preSt.nSamp)]
  /\ UNCHANGED preStOthers

DoPreStage ==
  /\ preSt.pc = "constructed"
  /\ preSt' = PreStage(preSt)
  /\ UNCHANGED preStOthers

NextPreStage == DoSampleCtor \/ DoPreStage

SpecPreStage == InitPreStage /\ [][NextPreStage]_vars

-----------------------------------------------------------------------------
(* Single-rank query on a cell of a rank-ordered buffer                     *)
(* (ObsPart::singleRank, SamplePred::SingleRank).                           *)

RankBufLens == {1, 2, 3, 4}
RankVals == {0, 1, 2}

\* A staged buffer in rank order; the query names a cell lying inside it.
InitSingleRank ==
  /\ \E n \in RankBufLens :
       \E rk \in [0 .. (n - 1) -> RankVals] :
         /\ \A i \in 1 .. (n - 1) : rk[i - 1] <= rk[i]
         /\ rankQ = [pc |-> "staged",
                     spn |-> [i \in 0 .. (n - 1) |->
                                [rank |-> rk[i], ySum |-> i + 1, sCount |-> 1]]]
  /\ rankQOthersIdle

DoSingleRank ==
  /\ rankQ.pc = "staged"
  /\ \E idxStart \in DOMAIN rankQ.spn :
       \E extent \in 0 .. (Cardinality(DOMAIN rankQ.spn) - idxStart) :
         rankQ' = [pc |-> "asked", spn |-> rankQ.spn, idxStart |-> idxStart,
                   extent |-> extent, single |-> singleRank(rankQ, idxStart, extent)]
  /\ UNCHANGED rankQOthers

NextSingleRank == DoSingleRank

SpecSingleRank == InitSingleRank /\ [][NextSingleRank]_vars

-----------------------------------------------------------------------------
(* Packing of the sample count and category of a staged cell (SPNode).      *)

\* Values of the static ctgShift, sample counts and category codes.
CtgShifts == {0, 1, 2, 3, 8, 16, 30}
PackCounts == {0, 1, 2, 3, 5, 255, Pow2(16), Pow2(24) + 1, Pow2(29), Pow2(30) + 3}
PackCtgs == {0, 1, 2, 3, 7, 8, 255, 256, Pow2(16) - 1, Pow2(30)}

InitPack ==
  /\ \E shift \in CtgShifts, s \in PackCounts, c \in PackCtgs :
       packSt = [pc |-> "unset", ctgShift |-> shift, sCountIn |-> s, ctgIn |-> c]
  /\ packStOthersIdle

\* SPNode::Init
DoPackInit ==
  /\ packSt.pc = "unset"
  /\ packSt' = [pc |-> "packed", ctgShift |-> packSt.ctgShift, sCountIn |-> packSt.sCountIn,
                ctgIn |-> packSt.ctgIn,
                sCount |-> PackWord(packSt.sCountIn, packSt.ctgIn, packSt.ctgShift)]
  /\ UNCHANGED packStOthers

\* SPNode::CtgFields
DoCtgFields ==
  /\ packSt.pc = "packed"
  /\ LET u == UnpackWord(packSt.sCount, packSt.ctgShift)
     IN packSt' = [pc |-> "ctgFields", ctgShift |-> packSt.ctgShift,
                   sCountIn |-> packSt.sCountIn, ctgIn |-> packSt.ctgIn,
                   sCount |-> packSt.sCount, yCtgOut |-> u.yCtg, sCountOut |-> u.sCount]
  /\ UNCHANGED packStOthers

\* SPNode::RegFields
DoRegFields ==
  /\ packSt.pc = "packed"
  /\ packSt' = [pc |-> "regFields", ctgShift |-> packSt.ctgShift,
                sCountIn |-> packSt.sCountIn, ctgIn |-> packSt.ctgIn,
                sCount |-> packSt.sCount, sCountOut |-> RegFields(packSt.sCount)]
  /\ UNCHANGED packStOthers

NextPack == DoPackInit \/ DoCtgFields \/ DoRegFields

SpecPack == InitPack /\ [][NextPack]_vars

----------------------------------------------------------------------------
(* Reported splits and the partitions they denote.                         *)

Reported == pc = "split" /\ nux.split

\* Splitting methods that report a numeric cut.
CutOps == {"SplitNum", "SplitNumMono", "SplitNumDense", "SplitNumDenseMono", "splitReg",
           "NumCtg", "NumCtgDense"}

Cells(c) == DOMAIN c.spn

DenseSCount(c) == SumOver([i \in DOMAIN c.dns |-> c.dns[i].sCount], DOMAIN c.dns)

DenseSum(c) == SumOver([i \in DOMAIN c.dns |-> c.dns[i].ySum], DOMAIN c.dns)

NodeExtent(c) == Cardinality(Cells(c)) + c.implicit

\* Slots of the runs a factor split places left.
LeftSlots(n) == {Slot(n.outZero, k) : k \in 0 .. (n.runsLH - 1)}

\* What a reported split places left: for a cut, the leading explicit cells
\* and the implicit block when lhImplicit is positive; for a factor split,
\* the cells of the left-hand runs and the implicit block when its run is
\* among them.
PlacedLeft(c, n) ==
  IF n.op \in CutOps
  THEN [cells |-> {i \in Cells(c) : i < c.idxStart + n.lhExtent - n.lhImplicit},
        dense |-> n.lhImplicit > 0]
  ELSE LET rk == {Slot(n.runZero, k).rank : k \in LeftSlots(n)}
       IN [cells |-> {i \in Cells(c) : c.spn[i].rank \in rk},
           dense |-> c.implicit > 0 /\ c.rankDense \in rk]

SCountOf(c, p) ==
  SumOver([i \in p.cells |-> c.spn[i].sCount], p.cells) + (IF p.dense THEN DenseSCount(c) ELSE 0)

SumOf(c, p) ==
  SumOver([i \in p.cells |-> c.spn[i].ySum], p.cells) + (IF p.dense THEN DenseSum(c) ELSE 0)

ExtentOf(c, p) == Cardinality(p.cells) + (IF p.dense THEN c.implicit ELSE 0)

\* C1: every reported split (numeric cut, heap-ordered factor cut, factor
\* subset) carries as lhSCount the sum of the sample counts and as lhExtent
\* the sum of the extents of exactly the cells and runs it places left, both
\* strictly between zero and the node's totals.
C1_LeftCountsAddUp ==
  Reported =>
    LET p == PlacedLeft(cand, nux)
    IN /\ nux.lhSCount = SCountOf(cand, p)
       /\ nux.lhExtent = ExtentOf(cand, p)
       /\ 0 < nux.lhSCount /\ nux.lhSCount < cand.sCount
       /\ 0 < nux.lhExtent /\ nux.lhExtent < NodeExtent(cand)

\* C2: a reported numeric cut has rankLH different from rankRH and never
\* separates two cells of equal rank.
C2_NoCutBetweenTies ==
  (Reported /\ nux.op \in CutOps) =>
    LET p == PlacedLeft(cand, nux)
    IN /\ \A i \in p.cells, j \in Cells(cand) \ p.cells : cand.spn[i].rank # cand.spn[j].rank
       /\ (nux.op # "splitReg" => nux.rankLH # nux.rankRH)

\* Fractions of equal value.
FEq(a, b) == a.n * b.d = b.n * a.d

\* sumL^2 / sCountL + sumR^2 / sCountR of the partition with p on the left.
RegScore(c, p) ==
  LET sumL == SumOf(c, p)
      sCountL == SCountOf(c, p)
  IN Frac(sumL * sumL * (c.sCount - sCountL) + (c.sum - sumL) * (c.sum - sumL) * sCountL,
          sCountL * (c.sCount - sCountL))

\* The explicit cells up to index i, without the implicit block.
Upto(c, i) == [cells |-> {j \in Cells(c) : j <= i}, dense |-> FALSE]

\* Indices whose cell and right-hand neighbour differ in rank.
RegBoundaries(c) == {i \in c.idxStart .. (c.idxEnd - 1) : c.spn[i].rank # c.spn[i + 1].rank}

CtgSumOf(c, p, g) ==
  SumOver([i \in p.cells |-> IF c.spn[i].ctg = g THEN c.spn[i].ySum ELSE 0], p.cells)
  + (IF p.dense
     THEN SumOver([i \in DOMAIN c.dns |-> IF c.dns[i].ctg = g THEN c.dns[i].ySum ELSE 0],
                  DOMAIN c.dns)
     ELSE 0)

\* ssL / sumL + ssR / sumR of the partition with p on the left.
GiniScore(c, p) ==
  LET sumL == SumOf(c, p)
      ssL == SumOver([g \in Ctgs(c.nCtg) |-> Square(CtgSumOf(c, p, g))], Ctgs(c.nCtg))
      ssR == SumOver([g \in Ctgs(c.nCtg) |-> Square(NodeCtgSum(c, g) - CtgSumOf(c, p, g))],
                     Ctgs(c.nCtg))
  IN Frac(ssL * (c.sum - sumL) + ssR * sumL, sumL * (c.sum - sumL))

TrueScore(c, p) == IF c.resp = "reg" THEN RegScore(c, p) ELSE GiniScore(c, p)

\* All staged cells share one rank and no rank is implicit.
SingleRank(c) == c.implicit = 0 /\ \A i, j \in Cells(c) : c.spn[i].rank = c.spn[j].rank

\* Number of explicit cells below the dense rank.
Preresidual(c) == Cardinality({i \in Cells(c) : c.spn[i].rank < c.rankDense})

\* The cut positions between adjacent distinct ranks of a node holding an
\* implicit rank: <<explicit cells left, implicit block left>>.
AllBoundaries(c) ==
  LET n == Cardinality(Cells(c))
      pre == Preresidual(c)
  IN {<<k, k > pre>> : k \in {j \in 1 .. (n - 1) :
                               j # pre /\ c.spn[c.idxStart + j - 1].rank # c.spn[c.idxStart + j].rank}}
     \cup (IF pre < n THEN {<<pre, TRUE>>} ELSE {})
     \cup (IF pre > 0 THEN {<<pre, FALSE>>} ELSE {})

\* The samples left of a cut position.
LeftOf(c, b) == [cells |-> {i \in Cells(c) : i < c.idxStart + b[1]}, dense |-> b[2]]

\* The ranks held by a node, the dense rank included.
NodeRanks(c) == {c.spn[i].rank : i \in Cells(c)} \cup (IF c.implicit > 0 THEN {c.rankDense} ELSE {})

\* The two-way partitions open to a candidate, each given by its left side:
\* the cuts between distinct adjacent ranks of a numeric predictor, the
\* nonempty proper subsets of the runs of a factor.
Partitions(c) ==
  IF c.fac
  THEN {[cells |-> {i \in Cells(c) : c.spn[i].rank \in R}, dense |-> c.rankDense \in R] :
          R \in (SUBSET NodeRanks(c)) \ {{}, NodeRanks(c)}}
  ELSE IF c.implicit > 0
       THEN {LeftOf(c, b) : b \in AllBoundaries(c)}
       ELSE {Upto(c, i) : i \in RegBoundaries(c)}

\* C4: a split is reported only with a score strictly above preBias, hence
\* with strictly positive info; a candidate whose cells share one rank, or
\* none of whose partitions beats preBias (the balanced factor of the
\* two-class example among them), reports no split.
C4_SplitOnlyAbovePreBias ==
  /\ Reported => FPos(nux.info)
  /\ (pc = "split" /\ SingleRank(cand)) => ~nux.split
  /\ (pc = "split" /\ \A p \in Partitions(cand) : ~FGt(TrueScore(cand, p), cand.preBias))
       => ~nux.split
  /\ (pc = "split" /\ cand = ScenarioBalanced) => ~nux.split

\* C5: under the non-decreasing constraint every reported cut, the cut at
\* the boundary of the implicit block included, has mean(L) <= mean(R), and
\* the strictly decreasing example reports no split.
C5_MonoCutsNonDecreasing ==
  /\ (Reported /\ cand.monoMode > 0) =>
       LET p == PlacedLeft(cand, nux)
       IN SumOf(cand, p) * (cand.sCount - SCountOf(cand, p))
            <= (cand.sum - SumOf(cand, p)) * SCountOf(cand, p)
  /\ (pc = "split" /\ cand = ScenarioMono) => ~nux.split

\* C6: on a regression node holding an implicit rank the unconstrained scan
\* tries every boundary between adjacent distinct ranks exactly once, and
\* reports a split whenever one of them scores above preBias.
C6_DenseScanCoversBoundaries ==
  (pc = "split" /\ nux.op \in {"SplitNumDense", "splitReg"} /\ cand.implicit > 0
     /\ cand.monoMode = 0) =>
    /\ {nux.tried[k] : k \in DOMAIN nux.tried} = AllBoundaries(cand)
    /\ Len(nux.tried) = Cardinality(AllBoundaries(cand))
    /\ (\E b \in AllBoundaries(cand) : FGt(RegScore(cand, LeftOf(cand, b)), cand.preBias))
         => nux.split

\* C7: a reported numeric cut on a node with implicit samples records them
\* left (lhImplicit = implicit) exactly when rankLH >= rankDense, and that
\* side is the side on which they were counted when lhSCount and the
\* winning info were taken.
C7_ImplicitSideConsistent ==
  (Reported /\ nux.op \in CutOps /\ cand.implicit > 0) =>
    /\ (nux.op # "splitReg" =>
          nux.lhImplicit = IF nux.rankLH >= cand.rankDense THEN cand.implicit ELSE 0)
    /\ nux.lhImplicit \in {0, cand.implicit}
    /\ (nux.lhImplicit > 0) = nux.winDL
    /\ nux.lhSCount = SCountOf(cand, PlacedLeft(cand, nux))
    /\ FEq(nux.info, FSub(TrueScore(cand, PlacedLeft(cand, nux)), cand.preBias))

----------------------------------------------------------------------------
(* Thresholds handed to successors.                                        *)

\* info > minRatio * parentInfo, by cross-multiplication.
AboveFloor(info, parentInfo) == info * minRatio.d > minRatio.n * parentInfo

\* C8: the threshold handed to both successors of a consumed split is
\* minRatio times the winner's info; a node below the root carries
\* minRatio times its parent's split info, its selected candidate exceeds
\* that floor and is the greatest that does, and a node none of whose
\* candidates exceeds the floor becomes terminal.
C8_MinInfoHandedDown ==
  /\ phase = "consumed" =>
       \A s \in DOMAIN succ :
         succ[s].minInfo.n * minRatio.d = minRatio.n * argMax.info * succ[s].minInfo.d
  /\ iSet.depth > 0 =>
       iSet.minInfo.n * minRatio.d = minRatio.n * iSet.parentInfo * iSet.minInfo.d
  /\ phase \in {"argmax", "consumed"} =>
       /\ AboveFloor(argMax.info, iSet.parentInfo)
       /\ \E k \in DOMAIN splitCand : splitCand[k] = argMax
       /\ \A k \in DOMAIN splitCand : splitCand[k].info <= argMax.info
  /\ (phase = "terminal" /\ splitCand # <<>>) =>
       \A k \in DOMAIN splitCand : ~AboveFloor(splitCand[k].info, iSet.parentInfo)

\* A child node whose candidate of info 2 was selected and consumed against
\* half of its parent's info 2, while another candidate did not exceed it.
C8_Witness ==
  /\ phase = "consumed" /\ iSet.depth = 1 /\ minRatio = Frac(1, 2)
  /\ iSet.parentInfo = 2 /\ argMax.info = 2
  /\ \E k \in DOMAIN splitCand : splitCand[k].info = 1

----------------------------------------------------------------------------
(* Row counts and binning.                                                 *)

Multiplicity(seq, v) == Cardinality({k \in DOMAIN seq : seq[k] = v})

Rows == 0 .. (nRow - 1)

\* C9: the per-row counts sum to the number of draws, each row's count is
\* its multiplicity among the draws, and bagCount is the number of rows
\* with a positive count.
C9_RowCountsMatchDraws ==
  spc \in {"RowSample", "countSamples"} =>
    /\ SumOver(sCountRow, Rows) = Len(rvRow)
    /\ \A row \in Rows : sCountRow[row] = Multiplicity(rvRow, row)
    /\ spc = "RowSample" => bagCount = Cardinality({row \in Rows : sCountRow[row] > 0})

\* C10: whatever the number of draws and of rows, binning returns the
\* same multiset of indices, writes every output position exactly once and
\* stays within its bin-population table and its output vector.
C10_BinningPreservesIndices ==
  (spc = "binIndices" \/ (spc = "countSamples" /\ binIdx(nRow) > 0)) =>
    /\ ~fault
    /\ \A v \in Rows : Multiplicity(idxBinned, v) = Multiplicity(rvRow, v)
    /\ \A j \in DOMAIN wrote : wrote[j] = 1

----------------------------------------------------------------------------
(* Restaging.                                                              *)

\* Positions of the restaged source range.
SourceRange == restage.startIdx .. (restage.startIdx + restage.extent - 1)

\* Source positions of the range reached by path q, and their number before
\* position i.
CellsOf(q) == {i \in SourceRange : restage.prepath[i] = q}

Before(q, i) == Cardinality({j \in CellsOf(q) : j < i})

LiveCells == {i \in SourceRange : restage.prepath[i] # noPath}

\* C11: restaging copies each cell of a live path exactly once, to the
\* next free offset of its path and in source order, and no noPath cell;
\* each path's segment is contiguous and rank-ordered and the segment
\* sizes sum to the number of live cells of the range.
C11_RestagePartitionsByPath ==
  restage.pc = "restaged" =>
    /\ \A i \in LiveCells :
         LET q == restage.prepath[i]
             d == restage.reachBase[q] + Before(q, i)
         IN /\ restage.targ[d] = [rank |-> restage.source[i].rank,
                                  sIdx |-> restage.idxSource[i]]
            /\ restage.wrote[d] = 1
    /\ SumOver(restage.wrote, DOMAIN restage.wrote) = Cardinality(LiveCells)
    /\ \A q \in DOMAIN restage.reachBase :
         /\ restage.reachOffset[q] - restage.reachBase[q] = Cardinality(CellsOf(q))
         /\ \A d \in restage.reachBase[q] .. (restage.reachOffset[q] - 2) :
              restage.targ[d].rank <= restage.targ[d + 1].rank
    /\ SumOver([q \in DOMAIN restage.reachBase |-> restage.reachOffset[q] - restage.reachBase[q]],
               DOMAIN restage.reachBase) = Cardinality(LiveCells)

\* A restaged range whose cells alternate between two paths and include an
\* extinct one.
C11_Witness ==
  /\ restage.pc = "restaged" /\ restage.extent = BufLen
  /\ restage.prepath[0] = 1 /\ restage.prepath[1] = 0 /\ restage.prepath[2] = noPath
  /\ restage.prepath[3] = 1
  /\ restage.source[0].rank < restage.source[3].rank

----------------------------------------------------------------------------
(* Staging.                                                                *)

\* The ranked entries of sampled rows, in ranked-frame order.
SampledEntries ==
  SelectSeq(stage.rrPred, LAMBDA e : stage.row2Sample[e.row] < stage.bagCount)

\* C12: staging writes one cell per explicit ranked entry of a sampled row,
\* in ranked-frame order, and none for unsampled rows; the count returned
\* does not exceed bagCount; singleton is reported iff either all bagCount
\* samples are staged with one rank, or nothing is staged.
C12_StageWritesSampledEntries ==
  stage.pc = "staged" =>
    LET se == SampledEntries
    IN /\ stage.expl = Len(se)
       /\ stage.expl <= stage.bagCount
       /\ \A k \in 1 .. Len(se) :
            LET sIdx == stage.row2Sample[se[k].row]
            IN /\ stage.spn[k - 1] = [rank |-> se[k].rank,
                                      ySum |-> stage.sampleNode[sIdx].ySum,
                                      sCount |-> stage.sampleNode[sIdx].sCount]
               /\ stage.smpIdx[k - 1] = sIdx
       /\ \A i \in DOMAIN stage.spn : i >= Len(se) => stage.spn[i] = NoStaged
       /\ stage.singleton <=>
            \/ stage.expl = stage.bagCount
                 /\ \A j, k \in 1 .. Len(se) : se[j].rank = se[k].rank
            \/ stage.expl = 0

\* All three sampled rows staged at one rank, an unsampled row skipped.
C12_Witness ==
  /\ stage.pc = "staged" /\ stage.bagCount = 3 /\ stage.expl = 3 /\ stage.singleton
  /\ Len(stage.rrPred) = 4

----------------------------------------------------------------------------
(* Run accumulation.                                                       *)

\* The explicit runs of the accumulated run set, and its implicit runs.
ExplicitRuns == {k \in DOMAIN runSet.rs.runZero : runSet.rs.runZero[k].start # noStart}

ImplicitRuns == {k \in DOMAIN runSet.rs.runZero : runSet.rs.runZero[k].start = noStart}

RunCells(k) ==
  runSet.rs.runZero[k].start .. (runSet.rs.runZero[k].start + runSet.rs.runZero[k].extent - 1)

\* C13: the explicit runs tile [idxStart, idxEnd], one per maximal block of
\* equal rank; a node with implicit samples has one implicit run, appended
\* last, holding the node totals minus the explicit totals; the runs'
\* sample counts, sums and category sums add up to the node's.
C13_RunsTileAndResidualize ==
  runSet.pc = "runs" =>
    LET rz == runSet.rs.runZero
    IN /\ \A i \in Cells(cand) : Cardinality({k \in ExplicitRuns : i \in RunCells(k)}) = 1
       /\ \A k \in ExplicitRuns :
            /\ rz[k].extent >= 1
            /\ RunCells(k) = {i \in Cells(cand) : cand.spn[i].rank = rz[k].rank}
            /\ rz[k].sCount = SumOver([i \in RunCells(k) |-> cand.spn[i].sCount], RunCells(k))
            /\ rz[k].sum = SumOver([i \in RunCells(k) |-> cand.spn[i].ySum], RunCells(k))
       /\ ImplicitRuns = IF cand.implicit > 0 THEN {Len(rz)} ELSE {}
       /\ \A k \in ImplicitRuns :
            /\ rz[k].extent = cand.implicit /\ rz[k].rank = cand.rankDense
            /\ rz[k].sCount = DenseSCount(cand) /\ rz[k].sum = DenseSum(cand)
            /\ \A g \in Ctgs(cand.nCtg) :
                 rz[k].ctgSum[g] =
                   SumOver([j \in DOMAIN cand.dns |->
                              IF cand.dns[j].ctg = g THEN cand.dns[j].ySum ELSE 0],
                           DOMAIN cand.dns)
       /\ SumOver([k \in DOMAIN rz |-> rz[k].sCount], DOMAIN rz) = cand.sCount
       /\ SumOver([k \in DOMAIN rz |-> rz[k].sum], DOMAIN rz) = cand.sum
       /\ \A g \in Ctgs(cand.nCtg) :
            SumOver([k \in DOMAIN rz |-> rz[k].ctgSum[g]], DOMAIN rz) = NodeCtgSum(cand, g)
       /\ runSet.rs.runCount = Len(rz)

\* A classification candidate of two explicit runs, one of them of two
\* cells, and an implicit run.
C13_Witness ==
  /\ runSet.pc = "runs" /\ runSet.op = "RunsCtg" /\ cand.implicit > 0
  /\ Cardinality(ExplicitRuns) = 2 /\ Cardinality(Cells(cand)) = 3
  /\ runSet.rs.runZero[3].sCount > 0

----------------------------------------------------------------------------
(* Subset scoring of multiclass factor candidates.                         *)

\* Effective run count of the candidate: its distinct ranks, the implicit
\* rank included, capped at maxWidth.
EffRuns(c) ==
  LET n == Cardinality(NodeRanks(c)) IN IF n > maxWidth THEN maxWidth ELSE n

\* Slots whose bit is set in a pattern over e - 1 slots.
SlotsOf(bits, e) == {slot \in 0 .. (e - 1) : bits % Pow2(slot + 1) >= Pow2(slot)}

C15_DeWideSamplesDistinctRuns ==
  wideSet.pc = "dewide" =>
    LET rs == wideSet.rs
        out == wideSet.out
    IN IF rs.runCount > maxWidth
       THEN /\ out.ret = maxWidth
            /\ \A i \in 1 .. maxWidth : \E j \in 1 .. rs.runCount : out.runZero[i] = rs.runZero[j]
            /\ \A i, k \in 1 .. maxWidth : i # k => out.runZero[i].rank # out.runZero[k].rank
       ELSE /\ out.ret = rs.runCount
            /\ out.runZero = rs.runZero

\* A wide run set was shrunk and the runs kept are not the first maxWidth ones.
C15_Witness ==
  /\ wideSet.pc = "dewide"
  /\ wideSet.rs.runCount > maxWidth
  /\ wideSet.out.ret = maxWidth
  /\ \E i \in 1 .. maxWidth : wideSet.out.runZero[i].rank < wideSet.rs.runCount - maxWidth
  /\ \E i \in 1 .. maxWidth : wideSet.out.runZero[i] # wideSet.rs.runZero[i]

\* C16: BlockReplay is idempotent within a level: after a second invocation
\* with the same predictor, buffer, start and extent the replay bits, the
\* returned explicit response sum and the per-category explicit sums and
\* sample counts are those left by the first invocation.
C16_BlockReplayIdempotent ==
  (replay.pc = "replayed" /\ replay.calls >= 2) =>
    /\ replay.replayExpl = replay.once.replayExpl
    /\ replay.sumExpl = replay.once.sumExpl
    /\ replay.ctgExpl = replay.once.ctgExpl

\* The candidates have all been split and the argmax has not cleared them.
AllSplit ==
  /\ level.pc = "split"
  /\ \A v \in 1 .. Len(level.splitCoord) : Finished(level, v)

\* C17: in any interleaving of the per-candidate split calls of a level no
\* two candidates write the same location (signature slot, run-set
\* workspace cell or category accumulator), and every candidate's outcome
\* is the one of the sequential execution in index order.
C17_CandidatesWriteDisjointly ==
  level.pc = "split" =>
    /\ \A u, v \in 1 .. Len(level.splitCoord) : u # v => level.wr[u] \cap level.wr[v] = {}
    /\ AllSplit =>
         \A v \in 1 .. Len(level.splitCoord) :
           /\ level.splitCoord[v].acc = level.seq[v].acc
           /\ level.mem.sig[SigSlot(level.splitCoord[v].splitIdx, level.splitCoord[v].predIdx)]
                = level.seq[v].acc

\* Two factor candidates of a multiclass level, one of them wide, were split
\* out of index order, each having written its cells.
C17_Witness ==
  /\ AllSplit
  /\ level.mixed
  /\ level.mode = "ctg3"
  /\ \E u, v \in 1 .. Len(level.splitCoord) :
       /\ u # v
       /\ IsFactor(level.splitCoord[u].predIdx) /\ IsFactor(level.splitCoord[v].predIdx)
       /\ RSet(level, level.splitCoord[u]).safeRunCount > maxWidth
       /\ Cardinality(level.wr[u]) > maxWidth /\ Cardinality(level.wr[v]) > 1

\* Coordinate of a candidate.
CoordOf(c) == <<c.splitIdx, c.predIdx>>

\* C18: in every level a candidate is scored only after it was prescheduled
\* and then retained by scheduling; a candidate scheduling rejects is never
\* scored; the retained candidates keep their preschedule order with vecPos
\* equal to their position; and after split and argmax the list is empty.
C18_ScoredOnlyWhenScheduled ==
  /\ level.pc \in {"split", "done"} =>
       /\ level.scored \subseteq level.retained
       /\ level.retained \subseteq {level.presched[k] : k \in 1 .. Len(level.presched)}
       /\ level.scored \cap level.rejected = {}
  /\ level.pc = "presched" => level.scored = {}
  /\ level.pc = "split" =>
       /\ [k \in 1 .. Len(level.splitCoord) |-> CoordOf(level.splitCoord[k])]
            = SelectSeq(level.presched, LAMBDA xy : xy \notin level.rejected)
       /\ \A k \in 1 .. Len(level.splitCoord) :
            /\ level.splitCoord[k].vecPos = k - 1
            /\ level.splitCoord[k].step > 0 => CoordOf(level.splitCoord[k]) \in level.scored
  /\ level.pc = "done" => level.splitCoord = <<>>

\* A level ended in which the first prescheduled candidate was rejected and
\* the second, retained at position zero, was scored.
C18_Witness ==
  /\ level.pc = "done"
  /\ Len(level.presched) = 2
  /\ level.rejected = {level.presched[1]}
  /\ level.scored = {level.presched[2]}
  /\ level.splitCoord = <<>>

\* Absolute value of a fraction.
FAbs(a) == IF a.n < 0 THEN Frac(0 - a.n, a.d) ELSE a

\* C19: MonoMode returns the sign of mono[p] exactly when the pair's variate
\* u satisfies sign(mono[p]) * u < |mono[p]|, and zero otherwise, as it does
\* whenever mono[p] = 0 or no predictor is constrained.
C19_MonoModeBySignedVariate ==
  monoSt.pc = "mode" =>
    LET monoProb == Slot(monoSt.mono, monoSt.predIdx)
        u == Slot(monoSt.ruMono, monoSt.vecPos)
        sign == SignOf(monoProb)
    IN monoSt.monoMode = IF sign # 0 /\ FGt(FAbs(monoProb), FMul(u, sign)) THEN sign ELSE 0

\* The byte the most recent write of an index stored, zero before any write.
StoredPath(i) == IF idxPath.last[i] = -1 THEN 0 ELSE idxPath.last[i] % Pow2(8)

----------------------------------------------------------------------------
(* Training in blocks.                                                     *)

\* C21: whatever the static block size is when training starts, initial
\* and de-initialised value included, trainChunk returns, and by then has
\* consumed each tree index 0 .. treeChunk-1 exactly once, in ascending
\* order, each block of at most trainBlock trees before the next is made.
C21_TrainChunkTerminates ==
  (trainSt.pc = "loop")
    ~> (/\ trainSt.pc = "done"
        /\ trainSt.consumed = [i \in 1..trainSt.treeChunk |-> i - 1])

----------------------------------------------------------------------------
(* Heap order.                                                             *)

\* Key of a slot as heapMean / heapBinary computes it.
HeapKeyOf(h, slot) ==
  LET r == Slot(h.rs.runZero, slot)
  IN IF h.by = "mean" THEN Frac(r.sum, r.sCount) ELSE Frac(r.ctgSum[1], r.sum)

\* C22: after the slots 0 .. n-1 are inserted in slot order, with keys that
\* may be equal, depopulating n slots writes every slot exactly once, in
\* non-decreasing order of key: of mean response for regression, of the
\* proportion of category 1 for binary classification.
C22_DepopulateSortsEverySlot ==
  heapSt.pc = "out" =>
    /\ Len(heapSt.lhOut) = heapSt.rs.runCount
    /\ {heapSt.lhOut[i] : i \in 1..Len(heapSt.lhOut)} = 0..(heapSt.rs.runCount - 1)
    /\ \A i, j \in 1..Len(heapSt.lhOut) :
         i < j => ~FGt(HeapKeyOf(heapSt, heapSt.lhOut[i]), HeapKeyOf(heapSt, heapSt.lhOut[j]))

\* Four runs, two of them with equal keys, popped in an order that is not
\* the slot order.
C22_Witness ==
  /\ heapSt.pc = "out"
  /\ heapSt.rs.runCount >= 4
  /\ \E a, b \in 0..(heapSt.rs.runCount - 1) :
       a # b /\ FEq(HeapKeyOf(heapSt, a), HeapKeyOf(heapSt, b))
  /\ \E i \in 1..Len(heapSt.lhOut) : heapSt.lhOut[i] # i - 1

----------------------------------------------------------------------------
(* Cut scans.                                                              *)

\* C23: on one layout of explicit cells, tied flags and implicit block the
\* classification scan visits the same candidate positions, in the same
\* order and with the same left and right rank indices, as the regression
\* scan without monotone constraint.
C23_CtgScanVisitsAsRegScan ==
  (scanSt.pc = "layout" /\ scanSt.done = {"reg", "ctg"}) => scanSt.ctg = scanSt.reg

----------------------------------------------------------------------------
(* Replay of factor splits.                                                *)

\* Slots of the runs that were scored: all but those a wide set dropped.
ScoredSlots(f) == 0 .. (effCount(f.rs) - 1)

ImplicitSlots(f) == {s \in ScoredSlots(f) : Slot(f.rs.runZero, s).start = noStart}

\* The calls on blockReplay are exactly one per slot of S, each through an
\* out slot the split wrote.
ReplaysExactly(f, S) ==
  /\ Len(f.out.blocks) = Cardinality(S)
  /\ {f.out.blocks[k].slot : k \in 1 .. Len(f.out.blocks)} = S
  /\ \A k \in 1 .. Len(f.out.blocks) : f.out.blocks[k].outSlot < Len(f.outZero)

\* C24: replay sets the left bit of exactly the codes of the left-hand
\* runs, and calls blockReplay only on explicit runs of the scored set
\* through out slots the split wrote: on exactly the left runs, returning
\* true, when no left run is implicit, and on exactly the right-hand runs,
\* returning false, when the implicit run lies left.
C24_ReplayExplicitRunsOnly ==
  facRep.pc = "replayed" =>
    /\ facRep.out.bits = {Slot(facRep.rs.runZero, s).rank : s \in LeftSlots(facRep)}
    /\ \A k \in 1 .. Len(facRep.out.blocks) : facRep.out.blocks[k].start # noStart
    /\ IF LeftSlots(facRep) \cap ImplicitSlots(facRep) = {}
       THEN facRep.out.ret /\ ReplaysExactly(facRep, LeftSlots(facRep))
       ELSE ~facRep.out.ret
            /\ ReplaysExactly(facRep, ScoredSlots(facRep) \ LeftSlots(facRep))

----------------------------------------------------------------------------
(* Rank counts of restaged cells.                                          *)

\* Ranks borne by the cells of the source range that reach path q.
RanksOf(q) == {restage.source[i].rank : i \in CellsOf(q)}

\* C25: with rankCount zero and rankPrev a rank no cell bears, restaging a
\* rank-ordered range leaves in rankCount[path] the number of distinct
\* ranks among the cells reaching the path; a child cell is a singleton
\* exactly when that count is one, and no singleton is scheduled again.
C25_RankCountIsDistinctRanks ==
  restage.pc = "scheduled" =>
    \A q \in DOMAIN restage.rankCount :
      /\ restage.rankCount[q] = Cardinality(RanksOf(q))
      /\ ChildSingleton(restage, q) <=> Cardinality(RanksOf(q)) = 1
      /\ Cardinality(RanksOf(q)) = 1 =>
           \A k \in 1 .. Len(restage.sched.sc2) : restage.sched.sc2[k].splitIdx # q

\* Two cells of one rank reach path 0, which is not scheduled; two cells of
\* different ranks reach path 1, which is.
C25_Witness ==
  /\ restage.pc = "scheduled"
  /\ Cardinality(CellsOf(0)) = 2 /\ Cardinality(RanksOf(0)) = 1
  /\ Cardinality(CellsOf(1)) = 2 /\ Cardinality(RanksOf(1)) = 2
  /\ Len(restage.sched.sc2) = 1 /\ restage.sched.sc2[1].splitIdx = 1

----------------------------------------------------------------------------
(* Frame of a restage.                                                     *)

\* Positions of predictor p's staged region in the half selected by bit.
BufRegion(p, bit) == {stageOffset[p] + bit * bufferSize + i : i \in 0 .. (PredLen - 1)}

\* C26: a restage of predictor p reading buffer b writes cells and sample
\* indices only inside p's region of buffer 1-b; buffer b of p and both
\* buffers of every other predictor keep their contents; and a restage that
\* next reads buffer 1-b writes back into buffer b.
C26_RestageWritesOtherBufferOnly ==
  (bufSt.pc = "level" /\ bufSt.last # NoRestage) =>
    LET l == bufSt.last
        targ == BufRegion(l.predIdx, 1 - l.bufIdx)
    IN /\ l.wrNode \cup l.wrIdx \subseteq targ
       /\ \A pos \in DOMAIN bufSt.nodeVec :
            pos \notin targ =>
              /\ bufSt.nodeVec[pos] = l.prev.nodeVec[pos]
              /\ bufSt.indexBase[pos] = l.prev.indexBase[pos]
       /\ targ \cap BufRegion(l.predIdx, l.bufIdx) = {}
       /\ \A p \in BufPreds \ {l.predIdx} :
            targ \cap (BufRegion(p, 0) \cup BufRegion(p, 1)) = {}
       /\ l.prevSource # -1 => (l.bufIdx = 1 - l.prevSource /\ targ = BufRegion(l.predIdx, l.prevSource))

\* Predictor 1 was rank-restaged from buffer 0 and then again from buffer 1,
\* the second time moving both cells of its region back into buffer 0.
C26_Witness ==
  /\ bufSt.pc = "level" /\ bufSt.last # NoRestage
  /\ bufSt.last.predIdx = 1 /\ bufSt.last.kind = "rank"
  /\ bufSt.last.prevSource = 0 /\ bufSt.last.bufIdx = 1
  /\ bufSt.last.wrNode = BufRegion(1, 0)
  /\ \E pos \in BufRegion(1, 0) : bufSt.indexBase[pos] # bufSt.last.prev.indexBase[pos]

----------------------------------------------------------------------------
(* Sample records.                                                         *)

\* Rows the cumulative sums of delRow reach, record by record.
RECURSIVE DecodedRows(_, _, _)
DecodedRows(samples, sIdx, row) ==
  IF sIdx > Len(samples) THEN <<>>
  ELSE <<row + samples[sIdx].delRow>>
         \o DecodedRows(samples, sIdx + 1, row + samples[sIdx].delRow)

\* C27: for every tree of a chunk the records emitted by rootSample decode,
\* by cumulative summation of delRow, to the ascending distinct sampled
\* rows of that tree with their multiplicities, and the bag matrix has the
\* bit of (tree, row) set iff the row was sampled for the tree.
C27_RecordsDecodeToSampledRows ==
  rootSt.pc = "bagged" =>
    \A t \in 1 .. rootSt.nTree :
      LET samples == TreeSamples(rootSt, t)
          rows == DecodedRows(samples, 1, 0)
          sampled == {rootSt.drawn[t][k] : k \in DOMAIN rootSt.drawn[t]}
      IN /\ rows = SortedSeq(sampled)
         /\ \A k \in 1 .. Len(samples) :
              samples[k].sCount = Multiplicity(rootSt.drawn[t], rows[k])
         /\ rootSt.bagMatrix[t] = sampled

\* Rows drawn for the tree, and the sampled rows below a row.
PreSampled == {preSt.rvRow[k] : k \in 1 .. Len(preSt.rvRow)}

PreRowsBelow(row) == {q \in PreSampled : q < row}

\* C28: after PreStage, row2Sample maps the sampled rows onto
\* 0 .. bagCount-1 in ascending row order, every unsampled row holds a value
\* >= bagCount, sample2Row inverts row2Sample on the sampled rows, the
\* tree-bag bit of a row is set iff the row is sampled, and bagSum is the sum
\* of the response sums of the sample records.
C28_PreStageMapsSampledRows ==
  preSt.pc = "prestaged" =>
    /\ preSt.bagCount = Cardinality(PreSampled)
    /\ \A row \in 0 .. (preSt.nRow - 1) :
         /\ row \in PreSampled =>
              /\ preSt.row2Sample[row] = Cardinality(PreRowsBelow(row))
              /\ preSt.sample2Row[preSt.row2Sample[row]] = row
         /\ row \notin PreSampled => preSt.row2Sample[row] >= preSt.bagCount
         /\ testBit(preSt.treeBag, row) <=> row \in PreSampled
    /\ Len(preSt.sampleNode) = preSt.bagCount
    /\ preSt.bagSum = SumOver([s \in 1 .. preSt.bagCount |-> preSt.sampleNode[s].ySum],
                              1 .. preSt.bagCount)

\* Two rows of different slots of the tree bag are sampled, others are not.
C28_Witness ==
  /\ preSt.pc = "prestaged"
  /\ preSt.nRow > slotElts /\ preSt.bagCount = 2
  /\ \E r \in PreSampled : r >= slotElts
  /\ \E r \in PreSampled : r < slotElts

\* Ranks held by the cells at positions idxStart .. idxStart + extent - 1.
CellRanks(q) == {q.spn[i].rank : i \in q.idxStart .. (q.idxStart + q.extent - 1)}

\* C29: singleRank returns true iff extent > 0 and all cells at positions
\* idxStart .. idxStart + extent - 1 of the rank-ordered buffer hold the same
\* rank, for every idxStart >= 0; it returns false for an empty cell.
C29_SingleRankOfAnyCell ==
  rankQ.pc = "asked" =>
    (rankQ.single <=> (rankQ.extent > 0 /\ Cardinality(CellRanks(rankQ)) = 1))

\* The same statement restricted to cells that start the buffer.
C29_SingleRankOfLeadingCell ==
  (rankQ.pc = "asked" /\ rankQ.idxStart = 0) =>
    (rankQ.single <=> (rankQ.extent > 0 /\ Cardinality(CellRanks(rankQ)) = 1))

\* c < 2^ctgShift and s * 2^ctgShift < 2^32, for ctgShift <= 30.
PackInBounds(s, c, ctgShift) ==
  /\ c < Pow2(ctgShift)
  /\ s \div Pow2(30 - ctgShift) < 4

\* C30: for c < 2^ctgShift and s * 2^ctgShift < 2^32, Init followed by
\* CtgFields returns exactly the count s and the category c; with
\* ctgShift = 0 RegFields returns s unchanged; outside these bounds the
\* packed field is not unpacked to the original pair.
C30_PackUnpackWithinBounds ==
  LET inBounds == PackInBounds(packSt.sCountIn, packSt.ctgIn, packSt.ctgShift)
  IN /\ packSt.pc = "ctgFields" =>
          (inBounds <=> (/\ packSt.sCountOut = Bits(packSt.sCountIn)
                         /\ packSt.yCtgOut = Bits(packSt.ctgIn)))
     /\ (packSt.pc = "regFields" /\ packSt.ctgShift = 0 /\ inBounds) =>
          packSt.sCountOut = Bits(packSt.sCountIn)

\* A count and a category that fill the word are unpacked again.
C30_Witness ==
  /\ packSt.pc = "ctgFields" /\ packSt.ctgShift = 8
  /\ packSt.sCountIn = Pow2(16) /\ packSt.ctgIn = 255
  /\ packSt.sCountOut = Bits(Pow2(16)) /\ packSt.yCtgOut = Bits(255)

====
